---- MODULE Spec2Model ----
(***************************************************************************)
(* Model of DossierComparator (src/comparator.py): the comparison of two   *)
(* parsed qualification dossiers.  Strings are sequences of one-character  *)
(* strings, so that lower(), split(), the regular expression on codes, the *)
(* string order used by sort() and Levenshtein.ratio are computed, not     *)
(* assumed.  compare_all is followed phase by phase and, inside the three  *)
(* loops over the old sub-processes, iteration by iteration.               *)
(***************************************************************************)
EXTENDS Integers, Sequences, FiniteSets, TLC

VARIABLES
    oud_data,                     \* self.oud_data
    nieuw_data,                   \* self.nieuw_data
    comparison_results,           \* self.comparison_results
    matched_oud_werkprocessen,    \* self.matched_oud_werkprocessen
    matched_nieuw_werkprocessen,  \* self.matched_nieuw_werkprocessen
    processed_combinations,       \* self.processed_combinations
    unmatched_oud,                \* local of _compare_werkprocessen_improved
    pc,                           \* position inside compare_all
    idx,                          \* loop index of the running STAP
    returned,                     \* the lists returned by the finished calls
    text_change                   \* a call of _describe_text_change: its
                                  \* arguments and the description it returns

vars == <<oud_data, nieuw_data, comparison_results, matched_oud_werkprocessen,
          matched_nieuw_werkprocessen, processed_combinations, unmatched_oud,
          pc, idx, returned, text_change>>

---------------------------------------------------------------------------
(* Bounds of the model.                                                    *)

\* longest list of sub-processes of one dossier
MaxWp == 2
\* longest list of core-tasks of one dossier
MaxKt == 2
\* number of compare_all calls on one comparator
MaxCalls == 2
MaxWords == 2
MaxItems == 2

---------------------------------------------------------------------------
(* Characters and strings.                                                 *)

\* the characters of the model, in code point order
CharOrder ==
    <<" ", "-", "0", "1", "2", "3", "4", "5", "6", "7", "8", "9",
      "A", "B", "C", "D", "E", "F", "G", "H", "I", "J", "K", "L", "M",
      "N", "O", "P", "Q", "R", "S", "T", "U", "V", "W", "X", "Y", "Z",
      "a", "b", "c", "d", "e", "f", "g", "h", "i", "j", "k", "l", "m",
      "n", "o", "p", "q", "r", "s", "t", "u", "v", "w", "x", "y", "z">>

Chars == {CharOrder[i] : i \in 1..Len(CharOrder)}

\* ord(c) up to an order-preserving renumbering
Ord == [c \in Chars |-> CHOOSE i \in 1..Len(CharOrder) : CharOrder[i] = c]

Digits == {"0", "1", "2", "3", "4", "5", "6", "7", "8", "9"}

DigitVal == [c \in Digits |-> Ord[c] - Ord["0"]]

\* str.lower() on one character
LowerChar(c) ==
    IF Ord[c] >= Ord["A"] /\ Ord[c] <= Ord["Z"]
    THEN CharOrder[Ord[c] + (Ord["a"] - Ord["A"])]
    ELSE c

\* str.lower()
Lower(s) == [i \in 1..Len(s) |-> LowerChar(s[i])]

\* a < b for Python strings: lexicographic by code point
RECURSIVE StrLess(_, _)
StrLess(a, b) ==
    IF b = <<>> THEN FALSE
    ELSE IF a = <<>> THEN TRUE
    ELSE IF a[1] # b[1] THEN Ord[a[1]] < Ord[b[1]]
    ELSE StrLess(Tail(a), Tail(b))

\* x in xs for a list
InList(x, xs) == \E i \in 1..Len(xs) : xs[i] = x

\* str.split(): the maximal runs of non-blank characters
RECURSIVE SplitFrom(_, _, _)
SplitFrom(s, cur, acc) ==
    IF s = <<>> THEN (IF cur = <<>> THEN acc ELSE Append(acc, cur))
    ELSE IF s[1] = " "
         THEN SplitFrom(Tail(s), <<>>, IF cur = <<>> THEN acc ELSE Append(acc, cur))
         ELSE SplitFrom(Tail(s), Append(cur, s[1]), acc)

Split(s) == SplitFrom(s, <<>>, <<>>)

\* str(n) for n >= 0
RECURSIVE DecimalOfNat(_)
DecimalOfNat(n) ==
    IF n < 10 THEN <<CharOrder[Ord["0"] + n]>>
    ELSE Append(DecimalOfNat(n \div 10), CharOrder[Ord["0"] + (n % 10)])

\* str(n), as the f-string of STAP 2 formats the candidate number
FormatInt(n) == IF n < 0 THEN <<"-">> \o DecimalOfNat(0 - n) ELSE DecimalOfNat(n)

\* int(s) for a non-empty string of digits
RECURSIVE ParseInt(_)
ParseInt(s) ==
    IF Len(s) = 1 THEN DigitVal[s[1]]
    ELSE 10 * ParseInt(SubSeq(s, 1, Len(s) - 1)) + DigitVal[s[Len(s)]]

---------------------------------------------------------------------------
(* Levenshtein.ratio.                                                      *)

\* one row of the longest-common-subsequence table: the row for the prefix
\* of a that ends in character c, from the row `prev' of the prefix before
RECURSIVE LcsRow(_, _, _, _)
LcsRow(c, b, prev, row) ==
    LET j == Len(row)
    IN IF j > Len(b) THEN row
       ELSE LcsRow(c, b, prev,
                   Append(row,
                          IF c = b[j]
                          THEN prev[j] + 1
                          ELSE IF prev[j + 1] >= row[j] THEN prev[j + 1] ELSE row[j]))

RECURSIVE LcsRows(_, _, _)
LcsRows(a, b, prev) ==
    IF a = <<>> THEN prev
    ELSE LcsRows(Tail(a), b, LcsRow(a[1], b, prev, <<0>>))

\* length of a longest common subsequence of a and b
Lcs(a, b) == LcsRows(a, b, [j \in 1..(Len(b) + 1) |-> 0])[Len(b) + 1]

\* Levenshtein.ratio(a, b) as the fraction num/den: with insertions and
\* deletions of weight 1 and substitutions of weight 2 the distance is
\* len(a) + len(b) - 2 * lcs, and the ratio (lensum - distance) / lensum;
\* two empty strings have ratio 1
Ratio(a, b) ==
    IF Len(a) + Len(b) = 0 THEN [num |-> 1, den |-> 1]
    ELSE [num |-> 2 * Lcs(a, b), den |-> Len(a) + Len(b)]

\* Levenshtein.ratio(a.lower(), b.lower())
Similarity(a, b) == Ratio(Lower(a), Lower(b))

\* x > p/q and x >= p/q for a ratio x
RatioGt(x, p, q) == x.num * q > p * x.den
RatioGe(x, p, q) == x.num * q >= p * x.den

\* x > y for two ratios
RatioGtRatio(x, y) == x.num * y.den > y.num * x.den

---------------------------------------------------------------------------
(* Codes.                                                                  *)

\* the end of the longest run of digits of s that starts at position i:
\* the position after its last digit (i itself when there is no digit)
RECURSIVE DigitsEnd(_, _)
DigitsEnd(s, i) ==
    IF i <= Len(s) /\ s[i] \in Digits THEN DigitsEnd(s, i + 1) ELSE i

CharAt(s, i, c) == i <= Len(s) /\ s[i] = c

\* re.match(r'(B\d+-K\d+)-W(\d+)', code): the match is anchored at the
\* start of the code only, what follows the last digit run is ignored.
\* ok: whether it matches; kerntaak: group(1); num: int(group(2))
MatchWerkprocesCode(code) ==
    LET b == DigitsEnd(code, 2)
        k == DigitsEnd(code, b + 2)
        w == DigitsEnd(code, k + 2)
        ok == /\ CharAt(code, 1, "B") /\ b > 2
              /\ CharAt(code, b, "-") /\ CharAt(code, b + 1, "K") /\ k > b + 2
              /\ CharAt(code, k, "-") /\ CharAt(code, k + 1, "W") /\ w > k + 2
    IN IF ok
       THEN [ok |-> TRUE, kerntaak |-> SubSeq(code, 1, k - 1),
             num |-> ParseInt(SubSeq(code, k + 2, w - 1))]
       ELSE [ok |-> FALSE, kerntaak |-> <<>>, num |-> 0]

\* f"{oud_kerntaak}-W{nieuw_wp_num}"
ShiftedCode(kerntaak, num) == kerntaak \o <<"-", "W">> \o FormatInt(num)

\* Offsets with a shift of four tried as well
OffsetsUpToFour == <<1, 2, 3, 4, -1, -2, -3, -4>>

\* Offsets with the negative shifts tried first
OffsetsNegativeFirst == <<-1, -2, -3, 1, 2, 3>>

\* the offsets STAP 2 tries, in its order
Offsets == <<1, 2, 3, -1, -2, -3>>

\* the "-" of a side that has no counterpart
Dash == <<"-">>

---------------------------------------------------------------------------
(* _describe_text_change.                                                  *)

\* [w.lower() for w in text.split() if len(w) > 3]
KeyWords(text) ==
    LET ws == SelectSeq(Split(text), LAMBDA w : Len(w) > 3)
    IN [i \in 1..Len(ws) |-> Lower(ws[i])]

\* xs[:3]
FirstThree(xs) == SubSeq(xs, 1, IF Len(xs) < 3 THEN Len(xs) ELSE 3)

\* the description when no name change is described
NoDescription == [toevoeging |-> <<>>, verwijdering |-> <<>>, zin |-> ""]

\* DescribeTextChange with the two length tests inclusive
DescribeTextChangeInclusive(old_text, new_text) ==
    LET old_words == KeyWords(old_text)
        new_words == KeyWords(new_text)
        added_words == SelectSeq(new_words, LAMBDA w : ~InList(w, old_words))
        removed_words == SelectSeq(old_words, LAMBDA w : ~InList(w, new_words))
    IN IF added_words # <<>> \/ removed_words # <<>>
       THEN [toevoeging |-> FirstThree(added_words),
             verwijdering |-> FirstThree(removed_words),
             zin |-> ""]
       ELSE [toevoeging |-> <<>>, verwijdering |-> <<>>,
             zin |-> IF 10 * Len(new_text) >= 12 * Len(old_text)
                     THEN "uitgebreidere beschrijving met meer details"
                     ELSE IF 10 * Len(new_text) <= 8 * Len(old_text)
                     THEN "beknoptere beschrijving met minder details"
                     ELSE "herformulering zonder significante inhoudelijke wijzigingen"]

\* _describe_text_change(old_text, new_text).  toevoeging / verwijdering:
\* the words named by the "toevoeging van" / "verwijdering van" clause (empty:
\* the clause is absent); zin: the fallback sentence when both are absent.
\* len(new) > len(old) * 1.2 and len(new) < len(old) * 0.8 are compared in
\* tenths
DescribeTextChange(old_text, new_text) ==
    LET old_words == KeyWords(old_text)
        new_words == KeyWords(new_text)
        added_words == SelectSeq(new_words, LAMBDA w : ~InList(w, old_words))
        removed_words == SelectSeq(old_words, LAMBDA w : ~InList(w, new_words))
    IN IF added_words # <<>> \/ removed_words # <<>>
       THEN [toevoeging |-> FirstThree(added_words),
             verwijdering |-> FirstThree(removed_words),
             zin |-> ""]
       ELSE [toevoeging |-> <<>>, verwijdering |-> <<>>,
             zin |-> IF 10 * Len(new_text) > 12 * Len(old_text)
                     THEN "uitgebreidere beschrijving met meer details"
                     ELSE IF 10 * Len(new_text) < 8 * Len(old_text)
                     THEN "beknoptere beschrijving met minder details"
                     ELSE "herformulering zonder significante inhoudelijke wijzigingen"]

---------------------------------------------------------------------------
(* Result rows.                                                            *)

\* the impact sentence of a row, kept in parts: zin is its fixed text, van /
\* naar the two values the f-string interpolates, wijziging the description
\* of _describe_text_change it embeds, termen the key terms it lists
Impact(zin, van, naar, wijziging, termen) ==
    [zin |-> zin, van |-> van, naar |-> naar, wijziging |-> wijziging, termen |-> termen]

\* an impact that is a fixed sentence
Sentence(zin) == Impact(zin, <<>>, <<>>, NoDescription, {})

\* one dictionary of comparison_results
Row(co, no, cn, nn, impact, pagina) ==
    [codering_oud |-> co, naam_oud |-> no, codering_nieuw |-> cn, naam_nieuw |-> nn,
     impact |-> impact, pagina |-> pagina]

\* EntryKey with the two codes only
EntryKeyCodesOnly(result) == <<result.codering_oud, result.codering_nieuw>>

\* entry_key of _remove_duplicates
EntryKey(result) ==
    <<result.codering_oud, result.naam_oud, result.codering_nieuw, result.naam_nieuw>>

\* _remove_duplicates: the rows whose key no earlier row has
RECURSIVE UniqueResults(_, _, _)
UniqueResults(results, unique_entries, unique_results) ==
    IF results = <<>> THEN unique_results
    ELSE LET entry_key == EntryKey(results[1])
         IN IF entry_key \notin unique_entries
            THEN UniqueResults(Tail(results), unique_entries \cup {entry_key},
                               Append(unique_results, results[1]))
            ELSE UniqueResults(Tail(results), unique_entries, unique_results)

RemoveDuplicatesOf(results) == UniqueResults(results, {}, <<>>)

---------------------------------------------------------------------------
(* _compare_metadata.                                                      *)

\* "Gewijzigd " and "Geldig vanaf " of the two f-strings
GewijzigdPrefix == <<"G", "e", "w", "i", "j", "z", "i", "g", "d", " ">>
GeldigVanafPrefix == <<"G", "e", "l", "d", "i", "g", " ", "v", "a", "n", "a", "f", " ">>

\* the i-th of the four rows _compare_metadata appends
MetadataRow(oud, nieuw, i) ==
    CASE i = 1 ->
           Row(oud.metadata.crebonr_dossier, Dash, nieuw.metadata.crebonr_dossier, Dash,
               Sentence("Wijziging van crebonummer van het kwalificatiedossier"), "1")
      [] i = 2 ->
           Row(oud.metadata.crebonr_kwalificatie, oud.metadata.naam_kwalificatie,
               nieuw.metadata.crebonr_kwalificatie, nieuw.metadata.naam_kwalificatie,
               Impact("Naamswijziging van {van} naar {naar} en wijziging van crebonummer",
                      oud.metadata.naam_kwalificatie, nieuw.metadata.naam_kwalificatie,
                      NoDescription, {}),
               "1")
      [] i = 3 ->
           Row(Dash, GewijzigdPrefix \o oud.metadata.versie,
               Dash, GewijzigdPrefix \o nieuw.metadata.versie,
               Sentence("Actualisatie van het kwalificatiedossier"), "1")
      [] OTHER ->
           Row(Dash, GeldigVanafPrefix \o oud.metadata.geldig_vanaf,
               Dash, GeldigVanafPrefix \o nieuw.metadata.geldig_vanaf,
               Sentence("Nieuwe geldigheidsdatum"), "1")

\* the keys of the metadata record the i-th row subscripts
MetadataKeys(i) ==
    CASE i = 1 -> {"crebonr_dossier"}
      [] i = 2 -> {"crebonr_kwalificatie", "naam_kwalificatie"}
      [] i = 3 -> {"versie"}
      [] OTHER -> {"geldig_vanaf"}

\* the rows of _compare_metadata whose subscripts raise KeyError: a key is
\* missing in the metadata of either dossier
MetadataMissing(oud, nieuw) ==
    {i \in 1..4 : ~(MetadataKeys(i) \subseteq
                        (DOMAIN oud.metadata \cap DOMAIN nieuw.metadata))}

\* the first k rows _compare_metadata appends
MetadataRowsUpTo(oud, nieuw, k) == [i \in 1..k |-> MetadataRow(oud, nieuw, i)]

\* the four rows _compare_metadata appends
MetadataRows(oud, nieuw) == MetadataRowsUpTo(oud, nieuw, 4)

\* every entity of a list has the keys "code" and "naam" that the dict
\* comprehensions subscript
HasCodeAndNaam(entities) ==
    \A i \in 1..Len(entities) : {"code", "naam"} \subseteq DOMAIN entities[i]

---------------------------------------------------------------------------
(* _compare_kerntaken.                                                     *)

\* the keys of {kt["code"]: kt["naam"] for kt in kerntaken}
CodesOf(entities) == {entities[i].code : i \in 1..Len(entities)}

\* the value of that dictionary at a code it holds: the name of the last
\* entity of the list that has the code
NaamByCode(entities, code) ==
    entities[CHOOSE i \in 1..Len(entities) :
                 /\ entities[i].code = code
                 /\ \A j \in (i + 1)..Len(entities) : entities[j].code # code].naam

\* sorted(codes) for a set of strings
RECURSIVE SortedCodes(_)
SortedCodes(codes) ==
    IF codes = {} THEN <<>>
    ELSE LET first == CHOOSE c \in codes : \A d \in codes \ {c} : StrLess(c, d)
         IN <<first>> \o SortedCodes(codes \ {first})

\* KerntaakRow with a name-based match: a code of the old list only is
\* joined with a new core-task of the same name
KerntaakRowByName(oud_kerntaken, nieuw_kerntaken, code) ==
    LET in_oud == code \in CodesOf(oud_kerntaken)
        in_nieuw == code \in CodesOf(nieuw_kerntaken)
        oud_naam == IF in_oud THEN NaamByCode(oud_kerntaken, code) ELSE Dash
        same == {j \in 1..Len(nieuw_kerntaken) :
                     in_oud /\ ~in_nieuw
                         /\ Lower(nieuw_kerntaken[j].naam) = Lower(oud_naam)}
    IN IF same # {}
       THEN Row(code, oud_naam,
                nieuw_kerntaken[CHOOSE j \in same : \A m \in same : j <= m].code,
                nieuw_kerntaken[CHOOSE j \in same : \A m \in same : j <= m].naam,
                Sentence("Geen wijziging in naam of codering"), "6")
       ELSE Row(IF in_oud THEN code ELSE Dash, oud_naam,
                IF in_nieuw THEN code ELSE Dash,
                IF in_nieuw THEN NaamByCode(nieuw_kerntaken, code) ELSE Dash,
                Sentence("Geen wijziging in naam of codering"), "6")

\* the row of one code of alle_codes
KerntaakRow(oud_kerntaken, nieuw_kerntaken, code) ==
    LET in_oud == code \in CodesOf(oud_kerntaken)
        in_nieuw == code \in CodesOf(nieuw_kerntaken)
        oud_naam == IF in_oud THEN NaamByCode(oud_kerntaken, code) ELSE Dash
        nieuw_naam == IF in_nieuw THEN NaamByCode(nieuw_kerntaken, code) ELSE Dash
        impact ==
            IF in_oud /\ in_nieuw
            THEN IF oud_naam # nieuw_naam
                 THEN Impact("Naamswijziging van de kerntaak: {wijziging}", <<>>, <<>>,
                             DescribeTextChange(oud_naam, nieuw_naam), {})
                 ELSE Sentence("Geen wijziging in naam of codering")
            ELSE IF in_oud
                 THEN Sentence("Kerntaak verwijderd in het nieuwe dossier")
                 ELSE Sentence("Nieuwe kerntaak toegevoegd in het nieuwe dossier")
    IN Row(IF in_oud THEN code ELSE Dash, oud_naam,
           IF in_nieuw THEN code ELSE Dash, nieuw_naam, impact, "6")

\* the rows _compare_kerntaken appends: one per code of either dossier, in
\* the sorted order of the codes
KerntakenRows(oud_kerntaken, nieuw_kerntaken) ==
    LET codes == SortedCodes(CodesOf(oud_kerntaken) \cup CodesOf(nieuw_kerntaken))
    IN [i \in 1..Len(codes) |-> KerntaakRow(oud_kerntaken, nieuw_kerntaken, codes[i])]

---------------------------------------------------------------------------
(* _compare_werkprocessen_improved.                                        *)

\* nieuw_wp_by_code[code] as a position of the list: the last entity with
\* that code (a later entry of the dict comprehension replaces an earlier)
IndexByCode(entities, code) ==
    CHOOSE i \in 1..Len(entities) :
        /\ entities[i].code = code
        /\ \A j \in (i + 1)..Len(entities) : entities[j].code # code

\* the least element of a non-empty set of positions
MinOf(S) == CHOOSE i \in S : \A j \in S : i <= j

\* Stap1Match taking the last new entity of the name instead of the first
Stap1MatchLast(oud_wp, nieuw_werkprocessen, matched_oud, matched_nieuw, processed) ==
    LET candidates ==
            {j \in 1..Len(nieuw_werkprocessen) :
                /\ nieuw_werkprocessen[j].naam = oud_wp.naam
                /\ nieuw_werkprocessen[j].code \notin matched_nieuw
                /\ <<oud_wp.code, nieuw_werkprocessen[j].code>> \notin processed}
    IN IF oud_wp.code \in matched_oud \/ candidates = {} THEN 0
       ELSE CHOOSE j \in candidates : \A i \in candidates : i <= j

\* STAP 1 for one old sub-process: the position in the new list of the
\* entity it is matched with, 0 when it is skipped or finds none.
\* nieuw_wp_by_naam[naam] lists the new entities of that name in list order
Stap1Match(oud_wp, nieuw_werkprocessen, matched_oud, matched_nieuw, processed) ==
    LET candidates ==
            {j \in 1..Len(nieuw_werkprocessen) :
                /\ nieuw_werkprocessen[j].naam = oud_wp.naam
                /\ nieuw_werkprocessen[j].code \notin matched_nieuw
                /\ <<oud_wp.code, nieuw_werkprocessen[j].code>> \notin processed}
    IN IF oud_wp.code \in matched_oud \/ candidates = {} THEN 0
       ELSE MinOf(candidates)

\* the row STAP 1 appends for a match
Stap1Row(oud_wp, nieuw_wp) ==
    Row(oud_wp.code, oud_wp.naam, nieuw_wp.code, nieuw_wp.naam,
        IF oud_wp.code = nieuw_wp.code
        THEN Sentence("Geen wijziging in naam of codering")
        ELSE Impact("Werkproces heeft nieuwe codering gekregen: van {van} naar {naar}",
                    oud_wp.code, nieuw_wp.code, NoDescription, {}),
        "7-14")

\* list.sort(key=code): a stable insertion sort by the string order of code
RECURSIVE InsertByCode(_, _)
InsertByCode(wp, sorted) ==
    IF sorted = <<>> THEN <<wp>>
    ELSE IF StrLess(wp.code, sorted[1].code) THEN <<wp>> \o sorted
    ELSE <<sorted[1]>> \o InsertByCode(wp, Tail(sorted))

RECURSIVE SortByCode(_)
SortByCode(wps) ==
    IF wps = <<>> THEN <<>>
    ELSE InsertByCode(wps[Len(wps)], SortByCode(SubSeq(wps, 1, Len(wps) - 1)))

\* the entities of a list whose code is not in `matched', in list order
Unmatched(wps, matched) == SelectSeq(wps, LAMBDA wp : wp.code \notin matched)

\* Stap2Accepts with similarity >= 0.7
Stap2AcceptsInclusive(oud_wp, nieuw_wp) ==
    RatioGe(Similarity(oud_wp.naam, nieuw_wp.naam), 7, 10) \/ oud_wp.naam = nieuw_wp.naam

\* whether STAP 2 accepts a candidate: similarity > 0.7 or equal names
Stap2Accepts(oud_wp, nieuw_wp) ==
    RatioGt(Similarity(oud_wp.naam, nieuw_wp.naam), 7, 10) \/ oud_wp.naam = nieuw_wp.naam

\* Stap2Scan that gives up at the first candidate that exists and is
\* unconsumed, accepted or not
RECURSIVE Stap2ScanFirstOnly(_, _, _, _, _, _, _, _)
Stap2ScanFirstOnly(oud_wp, kerntaak, num, offsets, k, nieuw_werkprocessen, matched_nieuw, processed) ==
    IF k > Len(offsets) THEN 0
    ELSE LET nieuw_code == ShiftedCode(kerntaak, num + offsets[k])
         IN IF nieuw_code \in CodesOf(nieuw_werkprocessen) /\ nieuw_code \notin matched_nieuw
            THEN LET j == IndexByCode(nieuw_werkprocessen, nieuw_code)
                 IN IF <<oud_wp.code, nieuw_code>> \notin processed
                           /\ Stap2Accepts(oud_wp, nieuw_werkprocessen[j])
                    THEN j
                    ELSE 0
            ELSE Stap2ScanFirstOnly(oud_wp, kerntaak, num, offsets, k + 1,
                                    nieuw_werkprocessen, matched_nieuw, processed)

\* the offset loop of STAP 2 from position k of `offsets' on: the position
\* in the new list of the first accepted candidate, 0 when there is none
RECURSIVE Stap2Scan(_, _, _, _, _, _, _, _)
Stap2Scan(oud_wp, kerntaak, num, offsets, k, nieuw_werkprocessen, matched_nieuw, processed) ==
    IF k > Len(offsets) THEN 0
    ELSE LET nieuw_code == ShiftedCode(kerntaak, num + offsets[k])
             rest == Stap2Scan(oud_wp, kerntaak, num, offsets, k + 1,
                               nieuw_werkprocessen, matched_nieuw, processed)
         IN IF nieuw_code \in CodesOf(nieuw_werkprocessen) /\ nieuw_code \notin matched_nieuw
            THEN LET j == IndexByCode(nieuw_werkprocessen, nieuw_code)
                 IN IF <<oud_wp.code, nieuw_code>> \in processed THEN rest
                    ELSE IF Stap2Accepts(oud_wp, nieuw_werkprocessen[j]) THEN j
                    ELSE rest
            ELSE rest

\* STAP 2 for one entity of unmatched_oud: the position in the new list of
\* the entity it is matched with, 0 when it is skipped or finds none
Stap2Match(oud_wp, nieuw_werkprocessen, matched_oud, matched_nieuw, processed) ==
    LET oud_match == MatchWerkprocesCode(oud_wp.code)
    IN IF oud_wp.code \in matched_oud \/ ~oud_match.ok THEN 0
       ELSE Stap2Scan(oud_wp, oud_match.kerntaak, oud_match.num, Offsets, 1,
                      nieuw_werkprocessen, matched_nieuw, processed)

\* the row STAP 2 and STAP 3 append for a match
RecodedRow(oud_wp, nieuw_wp) ==
    Row(oud_wp.code, oud_wp.naam, nieuw_wp.code, nieuw_wp.naam,
        IF oud_wp.naam = nieuw_wp.naam
        THEN Impact("Werkproces heeft nieuwe codering gekregen: van {van} naar {naar}",
                    oud_wp.code, nieuw_wp.code, NoDescription, {})
        ELSE Impact("Werkproces heeft nieuwe codering gekregen: van {van} naar {naar}. Naamswijziging: {wijziging}",
                    oud_wp.code, nieuw_wp.code,
                    DescribeTextChange(oud_wp.naam, nieuw_wp.naam), {}),
        "7-14")

\* Stap3Better with score >= best_score
Stap3BetterOrEqual(score, best_score) == score.num * best_score.den >= best_score.num * score.den

\* whether STAP 3 replaces its best match: score > best_score
Stap3Better(score, best_score) == RatioGtRatio(score, best_score)

\* the inner loop of STAP 3 from position j of the new list on, with the
\* best match (a position, 0 for None) and the best score so far
RECURSIVE Stap3Scan(_, _, _, _, _, _, _)
Stap3Scan(oud_wp, nieuw_werkprocessen, j, matched_nieuw, processed, best_match, best_score) ==
    IF j > Len(nieuw_werkprocessen) THEN best_match
    ELSE IF \/ nieuw_werkprocessen[j].code \in matched_nieuw
            \/ <<oud_wp.code, nieuw_werkprocessen[j].code>> \in processed
         THEN Stap3Scan(oud_wp, nieuw_werkprocessen, j + 1, matched_nieuw, processed,
                        best_match, best_score)
         ELSE LET score == Similarity(oud_wp.naam, nieuw_werkprocessen[j].naam)
              IN IF Stap3Better(score, best_score)
                 THEN Stap3Scan(oud_wp, nieuw_werkprocessen, j + 1, matched_nieuw,
                                processed, j, score)
                 ELSE Stap3Scan(oud_wp, nieuw_werkprocessen, j + 1, matched_nieuw,
                                processed, best_match, best_score)

\* Stap3Match with the best score starting from 0
Stap3MatchFromZero(oud_wp, nieuw_werkprocessen, matched_nieuw, processed) ==
    Stap3Scan(oud_wp, nieuw_werkprocessen, 1, matched_nieuw, processed,
              0, [num |-> 0, den |-> 1])

\* Stap3Match with the best score starting from 0.9
Stap3MatchFromNineTenths(oud_wp, nieuw_werkprocessen, matched_nieuw, processed) ==
    Stap3Scan(oud_wp, nieuw_werkprocessen, 1, matched_nieuw, processed,
              0, [num |-> 9, den |-> 10])

\* STAP 3 for one old sub-process that is not matched: the position in the
\* new list of its best match, 0 when no score exceeds the initial 0.5
Stap3Match(oud_wp, nieuw_werkprocessen, matched_nieuw, processed) ==
    Stap3Scan(oud_wp, nieuw_werkprocessen, 1, matched_nieuw, processed,
              0, [num |-> 1, den |-> 2])

\* RemovedRow with the code written to the wrong side
RemovedRowNoCode(oud_wp) ==
    Row(Dash, oud_wp.naam, Dash, Dash,
        Sentence("Werkproces verwijderd in het nieuwe dossier"), "7-14")

\* the row STAP 3 appends for an old sub-process without a match
RemovedRow(oud_wp) ==
    Row(oud_wp.code, oud_wp.naam, Dash, Dash,
        Sentence("Werkproces verwijderd in het nieuwe dossier"), "7-14")

\* the rows STAP 4 appends: one per new sub-process whose code is not matched
Stap4Rows(nieuw_werkprocessen, matched_nieuw) ==
    LET rest == Unmatched(nieuw_werkprocessen, matched_nieuw)
    IN [i \in 1..Len(rest) |->
            Row(Dash, Dash, rest[i].code, rest[i].naam,
                Sentence("Nieuw werkproces toegevoegd in het nieuwe dossier"), "7-14")]

---------------------------------------------------------------------------
(* _compare_text_sections and _analyze_text_differences.                   *)

\* _analyze_text_differences(old_text, new_text, section_type): a sentence
\* fixed per section, whatever the two texts are
AnalyzeTextDifferences(old_text, new_text, section_type) ==
    IF section_type = "context"
    THEN "In het nieuwe dossier is de context geactualiseerd: meer nadruk op verschillende specialisaties (persoonsbeveiliger, evenementenbeveiliger, etc.), minder nadruk op wettelijke basis (Wpbr) en SVPB-diploma's. Ook is de vermelding van 24/7 dienstverlening toegevoegd in plaats van specifieke tijdstippen."
    ELSE IF section_type = "beroepshouding"
    THEN "De nieuwe beroepshouding is uitgebreider beschreven met meer nadruk op \"slimme interventie\", vroegtijdig signaleren, security awareness, en sociale vaardigheden. Ook is er meer aandacht voor de balans tussen beveiligings- en faciliterende taken."
    ELSE IF section_type = "resultaat"
    THEN "In het nieuwe dossier is het resultaat uitgebreider beschreven met nadruk op vroegtijdig signaleren van dreigingen en risico's, borgen van continuiteit van bedrijfsvoering, en bijdrage aan sociale en maatschappelijke veiligheid."
    ELSE "Tekstuele wijzigingen zonder significante impact op de inhoud."

ContextNaam == <<"C", "o", "n", "t", "e", "x", "t">>
BeroepshoudingNaam == <<"T", "y", "p", "e", "r", "e", "n", "d", "e", " ", "b", "e", "r", "o", "e", "p", "s", "h", "o", "u", "d", "i", "n", "g">>
ResultaatNaam == <<"R", "e", "s", "u", "l", "t", "a", "a", "t", " ", "v", "a", "n", " ", "d", "e", " ", "b", "e", "r", "o", "e", "p", "s", "g", "r", "o", "e", "p">>

\* the three rows _compare_text_sections appends
TextSectionRows(oud, nieuw) ==
    <<Row(Dash, ContextNaam, Dash, ContextNaam,
          Sentence(AnalyzeTextDifferences(oud.context, nieuw.context, "context")), "6"),
      Row(Dash, BeroepshoudingNaam, Dash, BeroepshoudingNaam,
          Sentence(AnalyzeTextDifferences(oud.beroepshouding, nieuw.beroepshouding,
                                          "beroepshouding")), "6-7"),
      Row(Dash, ResultaatNaam, Dash, ResultaatNaam,
          Sentence(AnalyzeTextDifferences(oud.resultaat, nieuw.resultaat, "resultaat")),
          "6-7")>>

---------------------------------------------------------------------------
(* _compare_vakkennis_vaardigheden.                                        *)

\* the loop of _find_best_match: the best score, from best_score = 0.0
RECURSIVE BestScore(_, _, _)
BestScore(target, candidates, best_score) ==
    IF candidates = <<>> THEN best_score
    ELSE LET score == Similarity(target, candidates[1])
         IN BestScore(target, Tail(candidates),
                      IF RatioGtRatio(score, best_score) THEN score ELSE best_score)

\* HasSimilarItem with score > 0.8
HasSimilarItemStrict(target, candidates) ==
    RatioGt(BestScore(target, candidates, [num |-> 0, den |-> 1]), 8, 10)

\* _has_similar_item(target, candidates) with threshold 0.8: score >= 0.8;
\* without candidates the score is 0.0
HasSimilarItem(target, candidates) ==
    RatioGe(BestScore(target, candidates, [num |-> 0, den |-> 1]), 8, 10)

\* the alternatives of the key term pattern, in its order
KeyTermPatterns ==
    <<<<"i", "n", "t", "e", "g", "r", "i", "t", "e", "i", "t">>,
      <<"e", "t", "h", "i", "e", "k">>,
      <<"c", "o", "n", "f", "l", "i", "c", "t">>,
      <<"s", "e", "c", "u", "r", "i", "t", "y">>,
      <<"A", "V", "G">>,
      <<"t", "h", "r", "e", "a", "t">>,
      <<"s", "t", "r", "e", "s", "s">>,
      <<"E", "n", "g", "e", "l", "s">>,
      <<"c", "o", "m", "m", "u", "n", "i", "c", "a", "t", "i", "e">>,
      <<"p", "r", "o", "a", "c", "t", "i", "e", "f">>>>

\* whether pattern p occurs in item at position i
OccursAt(item, i, p) == i + Len(p) - 1 <= Len(item) /\ SubSeq(item, i, i + Len(p) - 1) = p

\* re.findall(pattern, item) from position i on, as the set of the matches:
\* at each position the first alternative that occurs there is taken and the
\* search goes on after it
RECURSIVE FindAllTerms(_, _)
FindAllTerms(item, i) ==
    IF i > Len(item) THEN {}
    ELSE LET hits == {k \in 1..Len(KeyTermPatterns) : OccursAt(item, i, KeyTermPatterns[k])}
         IN IF hits = {} THEN FindAllTerms(item, i + 1)
            ELSE LET p == KeyTermPatterns[MinOf(hits)]
                 IN {p} \cup FindAllTerms(item, i + Len(p))

\* _analyze_vakkennis_differences(oud_uniek, nieuw_uniek).  termen: the set
\* key_terms, which the sentence lists joined by ", "
AnalyzeVakkennisDifferences(oud_uniek, nieuw_uniek) ==
    LET key_terms == UNION {FindAllTerms(nieuw_uniek[i], 1) : i \in 1..Len(nieuw_uniek)}
    IN IF key_terms # {}
       THEN Impact("Het nieuwe dossier bevat aanvullende vakkennis en vaardigheden, waaronder: {termen}. Sommige vaardigheden zijn specifieker beschreven.",
                   <<>>, <<>>, NoDescription, key_terms)
       ELSE IF nieuw_uniek # <<>> /\ oud_uniek = <<>>
       THEN Sentence("Het nieuwe dossier bevat aanvullende vakkennis en vaardigheden. Sommige vaardigheden zijn specifieker beschreven.")
       ELSE IF oud_uniek # <<>> /\ nieuw_uniek = <<>>
       THEN Sentence("Sommige vakkennis en vaardigheden uit het oude dossier zijn verwijderd of anders geformuleerd.")
       ELSE IF oud_uniek # <<>> /\ nieuw_uniek # <<>>
       THEN Sentence("Zowel toevoegingen als verwijderingen in vakkennis en vaardigheden, met meer nadruk op actuele kennis en vaardigheden in het nieuwe dossier.")
       ELSE Sentence("Geen significante wijzigingen in vakkennis en vaardigheden.")

VakkennisNaam == <<"V", "a", "k", "k", "e", "n", "n", "i", "s", " ", "e", "n", " ", "v", "a", "a", "r", "d", "i", "g", "h", "e", "d", "e", "n">>

\* the row _compare_vakkennis_vaardigheden appends
VakkennisRow(oud, nieuw) ==
    LET oud_uniek == SelectSeq(oud.vakkennis_vaardigheden,
                               LAMBDA item : ~HasSimilarItem(item, nieuw.vakkennis_vaardigheden))
        nieuw_uniek == SelectSeq(nieuw.vakkennis_vaardigheden,
                                 LAMBDA item : ~HasSimilarItem(item, oud.vakkennis_vaardigheden))
    IN Row(Dash, VakkennisNaam, Dash, VakkennisNaam,
           AnalyzeVakkennisDifferences(oud_uniek, nieuw_uniek), "7-9")

---------------------------------------------------------------------------
(* The dossiers the comparator is constructed with.                        *)

Entity(code, naam) == [code |-> code, naam |-> naam]

\* the lists of at most n entities of a set
ListsOf(entities, n) == UNION {[1..k -> entities] : k \in 0..n}

\* codes: sub-processes B1-K1-W1, -W2, -W3, -W5, B1-K2-W3, and codes outside
\* the pattern; core-tasks B1-K1 and B1-K2
CodeW1 == <<"B", "1", "-", "K", "1", "-", "W", "1">>
CodeW2 == <<"B", "1", "-", "K", "1", "-", "W", "2">>
CodeW3 == <<"B", "1", "-", "K", "1", "-", "W", "3">>
CodeW4 == <<"B", "1", "-", "K", "1", "-", "W", "4">>
CodeW5 == <<"B", "1", "-", "K", "1", "-", "W", "5">>
CodeW10 == <<"B", "1", "-", "K", "1", "-", "W", "1", "0">>
CodeK2W3 == <<"B", "1", "-", "K", "2", "-", "W", "3">>
CodeX1 == <<"X", "1">>
CodeY1 == <<"Y", "1">>
CodeK1 == <<"B", "1", "-", "K", "1">>
CodeK2 == <<"B", "1", "-", "K", "2">>

\* names.  Similarity of lower-cased names: ab/Ab 1, ab/abc 4/5, ab/ac 1/2,
\* ab/cd 0, abc/ac 4/5, aaaaaaabbb/aaaaaaaccc 14/20
NaamAb == <<"a", "b">>
NaamAbUpper == <<"A", "b">>
NaamAc == <<"a", "c">>
NaamAbc == <<"a", "b", "c">>
NaamCd == <<"c", "d">>
NaamLongB == <<"a", "a", "a", "a", "a", "a", "a", "b", "b", "b">>
NaamLongC == <<"a", "a", "a", "a", "a", "a", "a", "c", "c", "c">>

Metadata(crebonr_dossier, crebonr_kwalificatie, naam_kwalificatie, versie, geldig_vanaf) ==
    [crebonr_dossier |-> crebonr_dossier, crebonr_kwalificatie |-> crebonr_kwalificatie,
     naam_kwalificatie |-> naam_kwalificatie, versie |-> versie,
     geldig_vanaf |-> geldig_vanaf]

MetadataOud == Metadata(<<"2", "3", "1", "7", "6">>, <<"2", "5", "4", "0", "7">>, <<"B", "e", "v", "e", "i", "l", "i", "g", "e", "r">>, <<"2", "0", "1", "6">>, <<"0", "1", "-", "0", "8", "-", "2", "0", "1", "6">>)
MetadataNieuw == Metadata(<<"2", "3", "2", "8", "4">>, <<"2", "5", "6", "9", "0">>, <<"B", "e", "v", "e", "i", "l", "i", "g", "e", "r", " ", "2">>, <<"2", "0", "2", "0">>, <<"0", "1", "-", "0", "8", "-", "2", "0", "2", "0">>)

\* the dictionary extract_data_from_pdf builds for one dossier
Dossier(metadata, kerntaken, werkprocessen, vakkennis_vaardigheden) ==
    [metadata |-> metadata, kerntaken |-> kerntaken, werkprocessen |-> werkprocessen,
     beroepshouding |-> <<>>, context |-> <<>>, resultaat |-> <<>>,
     vakkennis_vaardigheden |-> vakkennis_vaardigheden]


\* the sub-processes of the dossiers: per family the entities an old and a
\* new list are drawn from.  The first has repeated codes and names that
\* match exactly; the second codes one to four numbers apart and a code under
\* another core-task; the third names whose similarity is 0.7 and 0.5; the
\* fourth old codes two numbers apart around the new ones, and a two-digit
\* number that sorts before the one-digit numbers
WerkprocesFamilies ==
    {[oud |-> {Entity(CodeW1, NaamAb), Entity(CodeW1, NaamAc),
               Entity(CodeW2, NaamAb), Entity(CodeX1, NaamAc)},
      nieuw |-> {Entity(CodeW1, NaamAb), Entity(CodeW2, NaamAc),
                 Entity(CodeW2, NaamAbUpper), Entity(CodeY1, NaamAb)}],
     [oud |-> {Entity(CodeW1, NaamAb), Entity(CodeW2, NaamAb),
               Entity(CodeW2, NaamAbc), Entity(CodeX1, NaamAb)},
      nieuw |-> {Entity(CodeW1, NaamAbc), Entity(CodeW3, NaamCd),
                 Entity(CodeW5, NaamAbc), Entity(CodeK2W3, NaamAbc),
                 Entity(CodeY1, NaamAbUpper)}],
     [oud |-> {Entity(CodeW1, NaamLongB), Entity(CodeW1, NaamAb),
               Entity(CodeX1, NaamAb)},
      nieuw |-> {Entity(CodeW2, NaamLongC), Entity(CodeW2, NaamAc),
                 Entity(CodeY1, NaamAc), Entity(CodeW3, NaamAbc)}],
     [oud |-> {Entity(CodeW1, NaamAb), Entity(CodeW3, NaamAb),
               Entity(CodeW10, NaamAb)},
      nieuw |-> {Entity(CodeW2, NaamAbc), Entity(CodeW4, NaamAbc)}]}

\* the core-tasks the old and the new list are drawn from
KerntakenOud == {Entity(CodeK1, NaamAb), Entity(CodeK1, NaamAc), Entity(CodeK2, NaamAb)}
KerntakenNieuw == {Entity(CodeK1, NaamAb), Entity(CodeK2, NaamAb), Entity(CodeK2, NaamAc)}

\* the skill items the two lists are drawn from: "ab" and "abc" have
\* similarity 8/10, "cd" is similar to none, "AVG" is a key term
ItemAvg == <<"A", "V", "G">>
VakkennisItems == {NaamAb, NaamAbc, NaamCd, ItemAvg}

\* dossiers without entities whose skill lists vary
VakkennisInputs ==
    {<<Dossier(MetadataOud, <<>>, <<>>, o), Dossier(MetadataNieuw, <<>>, <<>>, n)>> :
        o \in ListsOf(VakkennisItems, MaxItems), n \in ListsOf(VakkennisItems, MaxItems)}

\* dossiers with a malformed record: a sub-process without "naam", a
\* core-task without "code", a metadata record without "naam_kwalificatie"
MalformedInputs ==
    {<<Dossier(MetadataOud, <<Entity(CodeK1, NaamAb)>>, <<[code |-> CodeW1]>>, <<NaamAb>>),
       Dossier(MetadataNieuw, <<Entity(CodeK1, NaamAb)>>, <<Entity(CodeW1, NaamAb)>>,
               <<NaamAb>>)>>,
     <<Dossier(MetadataOud, <<Entity(CodeK1, NaamAb)>>, <<Entity(CodeW1, NaamAb)>>,
               <<NaamAb>>),
       Dossier(MetadataNieuw, <<[naam |-> NaamAb]>>, <<Entity(CodeW1, NaamAb)>>,
               <<NaamAb>>)>>,
     <<Dossier([crebonr_dossier |-> MetadataOud.crebonr_dossier,
                crebonr_kwalificatie |-> MetadataOud.crebonr_kwalificatie,
                versie |-> MetadataOud.versie,
                geldig_vanaf |-> MetadataOud.geldig_vanaf],
               <<Entity(CodeK1, NaamAb)>>, <<Entity(CodeW1, NaamAb)>>, <<NaamAb>>),
       Dossier(MetadataNieuw, <<Entity(CodeK1, NaamAb)>>, <<Entity(CodeW1, NaamAb)>>,
               <<NaamAb>>)>>}

\* the pairs (old dossier, new dossier) a comparator is constructed with:
\* the sub-process lists vary with the core-tasks fixed, or the core-task
\* lists vary with the sub-processes fixed
Inputs ==
    UNION {{<<Dossier(MetadataOud, <<Entity(CodeK1, NaamAb)>>, o, <<NaamAb>>),
              Dossier(MetadataNieuw, <<Entity(CodeK1, NaamAb)>>, n, <<NaamAbc>>)>> :
               o \in ListsOf(f.oud, MaxWp), n \in ListsOf(f.nieuw, MaxWp)} :
           f \in WerkprocesFamilies}
    \cup {<<Dossier(MetadataOud, o, <<Entity(CodeW1, NaamAb)>>, <<NaamAb>>),
            Dossier(MetadataNieuw, n, <<Entity(CodeW2, NaamAb)>>, <<NaamCd>>)>> :
              o \in ListsOf(KerntakenOud, MaxKt), n \in ListsOf(KerntakenNieuw, MaxKt)}
    \cup MalformedInputs
    \cup VakkennisInputs

---------------------------------------------------------------------------
(* The comparator.                                                         *)

\* __init__
Init ==
    /\ \E input \in Inputs : oud_data = input[1] /\ nieuw_data = input[2]
    /\ comparison_results = <<>>
    /\ matched_oud_werkprocessen = {}
    /\ matched_nieuw_werkprocessen = {}
    /\ processed_combinations = {}
    /\ unmatched_oud = <<>>
    /\ pc = "idle"
    /\ idx = 0
    /\ returned = <<>>
    /\ text_change = [old_text |-> <<>>, new_text |-> <<>>, changes |-> NoDescription]

\* CompareAll with only the results reset: the match state of the earlier
\* call is kept
CompareAllKeepsMatchState ==
    /\ pc \in {"idle", "raised"}
    /\ Len(returned) < MaxCalls
    /\ comparison_results' = <<>>
    /\ pc' = "metadata"
    /\ UNCHANGED <<oud_data, nieuw_data, matched_oud_werkprocessen,
                   matched_nieuw_werkprocessen, processed_combinations,
                   unmatched_oud, idx, returned>>
    /\ UNCHANGED text_change

\* compare_all is called, for the first time or after a call that returned
\* or raised: the results and the match state are reset
CompareAll ==
    /\ pc \in {"idle", "raised"}
    /\ Len(returned) < MaxCalls
    /\ comparison_results' = <<>>
    /\ matched_oud_werkprocessen' = {}
    /\ matched_nieuw_werkprocessen' = {}
    /\ processed_combinations' = {}
    /\ pc' = "metadata"
    /\ UNCHANGED <<oud_data, nieuw_data, unmatched_oud, idx, returned>>
    /\ UNCHANGED text_change

\* _compare_metadata
CompareMetadata ==
    /\ pc = "metadata"
    /\ MetadataMissing(oud_data, nieuw_data) = {}
    /\ comparison_results' = comparison_results \o MetadataRows(oud_data, nieuw_data)
    /\ pc' = "kerntaken"
    /\ UNCHANGED <<oud_data, nieuw_data, matched_oud_werkprocessen,
                   matched_nieuw_werkprocessen, processed_combinations,
                   unmatched_oud, idx, returned>>
    /\ UNCHANGED text_change

\* _compare_kerntaken; _compare_werkprocessen_improved is entered
CompareKerntaken ==
    /\ pc = "kerntaken"
    /\ HasCodeAndNaam(oud_data.kerntaken) /\ HasCodeAndNaam(nieuw_data.kerntaken)
    /\ comparison_results' =
           comparison_results \o KerntakenRows(oud_data.kerntaken, nieuw_data.kerntaken)
    /\ pc' = "stap1"
    /\ idx' = 1
    /\ unmatched_oud' = <<>>
    /\ UNCHANGED <<oud_data, nieuw_data, matched_oud_werkprocessen,
                   matched_nieuw_werkprocessen, processed_combinations, returned>>
    /\ UNCHANGED text_change

\* MarkMatch with the marking forgotten: the row is appended only
MarkMatchUnmarked(oud_wp, nieuw_wp, row) ==
    /\ comparison_results' = Append(comparison_results, row)
    /\ UNCHANGED <<matched_oud_werkprocessen, matched_nieuw_werkprocessen,
                   processed_combinations>>

\* a match of oud_wp with nieuw_wp: the row is appended and the two codes
\* and their combination are marked
MarkMatch(oud_wp, nieuw_wp, row) ==
    /\ comparison_results' = Append(comparison_results, row)
    /\ matched_oud_werkprocessen' = matched_oud_werkprocessen \cup {oud_wp.code}
    /\ matched_nieuw_werkprocessen' = matched_nieuw_werkprocessen \cup {nieuw_wp.code}
    /\ processed_combinations' =
           processed_combinations \cup {<<oud_wp.code, nieuw_wp.code>>}

NoMatch ==
    UNCHANGED <<comparison_results, matched_oud_werkprocessen,
                matched_nieuw_werkprocessen, processed_combinations>>

\* one iteration of the loop of STAP 1
Stap1 ==
    /\ pc = "stap1"
    /\ HasCodeAndNaam(oud_data.werkprocessen) /\ HasCodeAndNaam(nieuw_data.werkprocessen)
    /\ idx <= Len(oud_data.werkprocessen)
    /\ LET oud_wp == oud_data.werkprocessen[idx]
           j == Stap1Match(oud_wp, nieuw_data.werkprocessen, matched_oud_werkprocessen,
                           matched_nieuw_werkprocessen, processed_combinations)
       IN IF j # 0
          THEN MarkMatch(oud_wp, nieuw_data.werkprocessen[j],
                         Stap1Row(oud_wp, nieuw_data.werkprocessen[j]))
          ELSE NoMatch
    /\ idx' = idx + 1
    /\ UNCHANGED <<oud_data, nieuw_data, unmatched_oud, pc, returned>>
    /\ UNCHANGED text_change

\* Stap1Sort sorting the old list of the dossier itself instead of a new
\* list
Stap1SortInPlace ==
    /\ pc = "stap1"
    /\ HasCodeAndNaam(oud_data.werkprocessen) /\ HasCodeAndNaam(nieuw_data.werkprocessen)
    /\ idx > Len(oud_data.werkprocessen)
    /\ oud_data' = [oud_data EXCEPT !.werkprocessen = SortByCode(@)]
    /\ unmatched_oud' = Unmatched(oud_data'.werkprocessen, matched_oud_werkprocessen)
    /\ pc' = IF unmatched_oud' = <<>> THEN "stap3" ELSE "stap2"
    /\ idx' = 1
    /\ UNCHANGED <<nieuw_data, comparison_results, matched_oud_werkprocessen,
                   matched_nieuw_werkprocessen, processed_combinations, returned>>
    /\ UNCHANGED text_change

\* Stap1Sort that leaves the unmatched old sub-processes in input order
Stap1SortInputOrder ==
    /\ pc = "stap1"
    /\ HasCodeAndNaam(oud_data.werkprocessen) /\ HasCodeAndNaam(nieuw_data.werkprocessen)
    /\ idx > Len(oud_data.werkprocessen)
    /\ unmatched_oud' = Unmatched(oud_data.werkprocessen, matched_oud_werkprocessen)
    /\ pc' = IF unmatched_oud' = <<>> THEN "stap3" ELSE "stap2"
    /\ idx' = 1
    /\ UNCHANGED <<oud_data, nieuw_data, comparison_results, matched_oud_werkprocessen,
                   matched_nieuw_werkprocessen, processed_combinations, returned>>
    /\ UNCHANGED text_change

\* the loop of STAP 1 has ended: the unmatched old sub-processes are
\* collected and sorted by code, and the loop of STAP 2 starts (it has no
\* iteration when the list is empty)
Stap1Sort ==
    /\ pc = "stap1"
    /\ HasCodeAndNaam(oud_data.werkprocessen) /\ HasCodeAndNaam(nieuw_data.werkprocessen)
    /\ idx > Len(oud_data.werkprocessen)
    /\ unmatched_oud' = SortByCode(Unmatched(oud_data.werkprocessen,
                                             matched_oud_werkprocessen))
    /\ pc' = IF unmatched_oud' = <<>> THEN "stap3" ELSE "stap2"
    /\ idx' = 1
    /\ UNCHANGED <<oud_data, nieuw_data, comparison_results, matched_oud_werkprocessen,
                   matched_nieuw_werkprocessen, processed_combinations, returned>>
    /\ UNCHANGED text_change

\* Stap2 that pairs by the best name similarity instead of the shifted code
Stap2BySimilarity ==
    /\ pc = "stap2"
    /\ idx <= Len(unmatched_oud)
    /\ LET oud_wp == unmatched_oud[idx]
           j == IF oud_wp.code \in matched_oud_werkprocessen THEN 0
                ELSE Stap3Match(oud_wp, nieuw_data.werkprocessen,
                                matched_nieuw_werkprocessen, processed_combinations)
       IN IF j # 0
          THEN MarkMatch(oud_wp, nieuw_data.werkprocessen[j],
                         RecodedRow(oud_wp, nieuw_data.werkprocessen[j]))
          ELSE NoMatch
    /\ pc' = IF idx = Len(unmatched_oud) THEN "stap3" ELSE "stap2"
    /\ idx' = IF idx = Len(unmatched_oud) THEN 1 ELSE idx + 1
    /\ UNCHANGED <<oud_data, nieuw_data, unmatched_oud, returned>>
    /\ UNCHANGED text_change

\* one iteration of the loop of STAP 2; after its last iteration the loop of
\* STAP 3 starts
Stap2 ==
    /\ pc = "stap2"
    /\ idx <= Len(unmatched_oud)
    /\ LET oud_wp == unmatched_oud[idx]
           j == Stap2Match(oud_wp, nieuw_data.werkprocessen, matched_oud_werkprocessen,
                           matched_nieuw_werkprocessen, processed_combinations)
       IN IF j # 0
          THEN MarkMatch(oud_wp, nieuw_data.werkprocessen[j],
                         RecodedRow(oud_wp, nieuw_data.werkprocessen[j]))
          ELSE NoMatch
    /\ pc' = IF idx = Len(unmatched_oud) THEN "stap3" ELSE "stap2"
    /\ idx' = IF idx = Len(unmatched_oud) THEN 1 ELSE idx + 1
    /\ UNCHANGED <<oud_data, nieuw_data, unmatched_oud, returned>>
    /\ UNCHANGED text_change

\* one iteration of the loop of STAP 3
Stap3 ==
    /\ pc = "stap3"
    /\ idx <= Len(oud_data.werkprocessen)
    /\ LET oud_wp == oud_data.werkprocessen[idx]
           j == Stap3Match(oud_wp, nieuw_data.werkprocessen,
                           matched_nieuw_werkprocessen, processed_combinations)
       IN IF oud_wp.code \in matched_oud_werkprocessen
          THEN NoMatch
          ELSE IF j # 0
          THEN MarkMatch(oud_wp, nieuw_data.werkprocessen[j],
                         RecodedRow(oud_wp, nieuw_data.werkprocessen[j]))
          ELSE /\ comparison_results' = Append(comparison_results, RemovedRow(oud_wp))
               /\ UNCHANGED <<matched_oud_werkprocessen, matched_nieuw_werkprocessen,
                              processed_combinations>>
    /\ idx' = idx + 1
    /\ UNCHANGED <<oud_data, nieuw_data, unmatched_oud, pc, returned>>
    /\ UNCHANGED text_change

\* Stap4 with the 'added' rows put in front of the results
Stap4Prepends ==
    /\ pc = "stap3"
    /\ idx > Len(oud_data.werkprocessen)
    /\ comparison_results' =
           Stap4Rows(nieuw_data.werkprocessen, matched_nieuw_werkprocessen)
               \o comparison_results
    /\ pc' = "text_sections"
    /\ UNCHANGED <<oud_data, nieuw_data, matched_oud_werkprocessen,
                   matched_nieuw_werkprocessen, processed_combinations,
                   unmatched_oud, idx, returned>>
    /\ UNCHANGED text_change

\* the loop of STAP 3 has ended: STAP 4
Stap4 ==
    /\ pc = "stap3"
    /\ idx > Len(oud_data.werkprocessen)
    /\ comparison_results' =
           comparison_results \o Stap4Rows(nieuw_data.werkprocessen,
                                           matched_nieuw_werkprocessen)
    /\ pc' = "text_sections"
    /\ UNCHANGED <<oud_data, nieuw_data, matched_oud_werkprocessen,
                   matched_nieuw_werkprocessen, processed_combinations,
                   unmatched_oud, idx, returned>>
    /\ UNCHANGED text_change

\* _compare_text_sections
CompareTextSections ==
    /\ pc = "text_sections"
    /\ comparison_results' = comparison_results \o TextSectionRows(oud_data, nieuw_data)
    /\ pc' = "vakkennis"
    /\ UNCHANGED <<oud_data, nieuw_data, matched_oud_werkprocessen,
                   matched_nieuw_werkprocessen, processed_combinations,
                   unmatched_oud, idx, returned>>
    /\ UNCHANGED text_change

\* _compare_vakkennis_vaardigheden
CompareVakkennisVaardigheden ==
    /\ pc = "vakkennis"
    /\ comparison_results' = Append(comparison_results, VakkennisRow(oud_data, nieuw_data))
    /\ pc' = "remove_duplicates"
    /\ UNCHANGED <<oud_data, nieuw_data, matched_oud_werkprocessen,
                   matched_nieuw_werkprocessen, processed_combinations,
                   unmatched_oud, idx, returned>>
    /\ UNCHANGED text_change

\* _remove_duplicates, and compare_all returns self.comparison_results
RemoveDuplicates ==
    /\ pc = "remove_duplicates"
    /\ comparison_results' = RemoveDuplicatesOf(comparison_results)
    /\ returned' = Append(returned, comparison_results')
    /\ pc' = "idle"
    /\ UNCHANGED <<oud_data, nieuw_data, matched_oud_werkprocessen,
                   matched_nieuw_werkprocessen, processed_combinations,
                   unmatched_oud, idx>>
    /\ UNCHANGED text_change

\* a subscript of a record that lacks the key raises KeyError and
\* compare_all ends without returning: in _compare_metadata after the rows
\* before the first one that needs the key, in the dict comprehensions of
\* _compare_kerntaken, in the dictionaries _compare_werkprocessen_improved
\* builds before STAP 1
RaiseKeyError ==
    /\ \/ /\ pc = "metadata"
          /\ MetadataMissing(oud_data, nieuw_data) # {}
          /\ comparison_results' = comparison_results \o
                 MetadataRowsUpTo(oud_data, nieuw_data,
                                  MinOf(MetadataMissing(oud_data, nieuw_data)) - 1)
       \/ /\ pc = "kerntaken"
          /\ ~(HasCodeAndNaam(oud_data.kerntaken) /\ HasCodeAndNaam(nieuw_data.kerntaken))
          /\ UNCHANGED comparison_results
       \/ /\ pc = "stap1"
          /\ ~(HasCodeAndNaam(oud_data.werkprocessen)
                   /\ HasCodeAndNaam(nieuw_data.werkprocessen))
          /\ UNCHANGED comparison_results
    /\ pc' = "raised"
    /\ UNCHANGED <<oud_data, nieuw_data, matched_oud_werkprocessen,
                   matched_nieuw_werkprocessen, processed_combinations,
                   unmatched_oud, idx, returned>>
    /\ UNCHANGED text_change

Next ==
    \/ CompareAll
    \/ RaiseKeyError
    \/ CompareMetadata
    \/ CompareKerntaken
    \/ Stap1
    \/ Stap1Sort
    \/ Stap2
    \/ Stap3
    \/ Stap4
    \/ CompareTextSections
    \/ CompareVakkennisVaardigheden
    \/ RemoveDuplicates

Spec == Init /\ [][Next]_vars

---------------------------------------------------------------------------
(* _describe_text_change on its own: the texts it is called with and the   *)
(* description it returns.                                                 *)

\* the words of the texts: two spellings of one word of four letters, a
\* word of three letters (not a key word), and three more words
WordAbcd == <<"a", "b", "c", "d">>
WordAbcdUpper == <<"A", "b", "c", "d">>
WordAbc == <<"a", "b", "c">>
WordBbbb == <<"b", "b", "b", "b">>
WordCccc == <<"c", "c", "c", "c">>
WordDddd == <<"d", "d", "d", "d">>
Words == {WordAbcd, WordAbcdUpper, WordAbc, WordBbbb, WordCccc}

\* " ".join(ws)
RECURSIVE JoinWords(_)
JoinWords(ws) ==
    IF ws = <<>> THEN <<>>
    ELSE IF Len(ws) = 1 THEN ws[1]
    ELSE ws[1] \o <<" ">> \o JoinWords(Tail(ws))

\* the texts: every text of at most MaxWords words, and texts with four
\* key words
Texts ==
    {JoinWords(ws) : ws \in UNION {[1..k -> Words] : k \in 0..MaxWords}}
    \cup {JoinWords(<<WordAbcd, WordBbbb, WordCccc, WordDddd>>),
          JoinWords(<<WordDddd, WordBbbb, WordDddd, WordAbcdUpper, WordCccc>>)}

\* a caller is about to call _describe_text_change(old_text, new_text)
InitDescribe ==
    /\ \E o \in Texts, n \in Texts :
           text_change = [old_text |-> o, new_text |-> n, changes |-> NoDescription]
    /\ oud_data = Dossier(MetadataOud, <<>>, <<>>, <<>>)
    /\ nieuw_data = Dossier(MetadataNieuw, <<>>, <<>>, <<>>)
    /\ comparison_results = <<>>
    /\ matched_oud_werkprocessen = {}
    /\ matched_nieuw_werkprocessen = {}
    /\ processed_combinations = {}
    /\ unmatched_oud = <<>>
    /\ pc = "describe"
    /\ idx = 0
    /\ returned = <<>>

\* _describe_text_change returns
DescribeChange ==
    /\ pc = "describe"
    /\ text_change' = [text_change EXCEPT
                          !.changes = DescribeTextChange(text_change.old_text,
                                                         text_change.new_text)]
    /\ pc' = "described"
    /\ UNCHANGED <<oud_data, nieuw_data, comparison_results, matched_oud_werkprocessen,
                   matched_nieuw_werkprocessen, processed_combinations,
                   unmatched_oud, idx, returned>>

NextDescribe == DescribeChange

SpecDescribe == InitDescribe /\ [][NextDescribe]_vars

---------------------------------------------------------------------------
(* Properties.                                                             *)

\* a call of compare_all has returned
Done == pc = "idle" /\ returned # <<>>

\* the list the last finished call returned
Result == returned[Len(returned)]

\* rows of the sub-process section and of the core-task section of a list
\* (the "Context" row shares page "6" with the core-tasks and has no code)
IsWerkprocesRow(r) == r.pagina = "7-14"
IsKerntaakRow(r) == r.pagina = "6" /\ (r.codering_oud # Dash \/ r.codering_nieuw # Dash)

\* the rows of a section that have the entity on their old / new side
OldSideRows(results, InSection(_), e) ==
    {k \in 1..Len(results) :
        /\ InSection(results[k])
        /\ results[k].codering_oud = e.code /\ results[k].naam_oud = e.naam}
NewSideRows(results, InSection(_), e) ==
    {k \in 1..Len(results) :
        /\ InSection(results[k])
        /\ results[k].codering_nieuw = e.code /\ results[k].naam_nieuw = e.naam}

\* codes occur once in the list
UniqueCodes(entities) ==
    \A i, j \in 1..Len(entities) : entities[i].code = entities[j].code => i = j

\* C1: every old core-task and every old sub-process is the old side of
\* exactly one row of the returned list
C1_EveryOldEntityInOneRow ==
    Done =>
        /\ \A i \in 1..Len(oud_data.werkprocessen) :
               Cardinality(OldSideRows(Result, IsWerkprocesRow,
                                       oud_data.werkprocessen[i])) = 1
        /\ \A i \in 1..Len(oud_data.kerntaken) :
               Cardinality(OldSideRows(Result, IsKerntaakRow, oud_data.kerntaken[i])) = 1

\* C2: every new core-task and every new sub-process is the new side of
\* exactly one row of the returned list
C2_EveryNewEntityInOneRow ==
    Done =>
        /\ \A i \in 1..Len(nieuw_data.werkprocessen) :
               Cardinality(NewSideRows(Result, IsWerkprocesRow,
                                       nieuw_data.werkprocessen[i])) = 1
        /\ \A i \in 1..Len(nieuw_data.kerntaken) :
               Cardinality(NewSideRows(Result, IsKerntaakRow, nieuw_data.kerntaken[i])) = 1

\* C1 and C2 for dossiers whose lists repeat no code
CoverageWithUniqueCodes ==
    (/\ UniqueCodes(oud_data.werkprocessen) /\ UniqueCodes(nieuw_data.werkprocessen)
     /\ UniqueCodes(oud_data.kerntaken) /\ UniqueCodes(nieuw_data.kerntaken))
    => C1_EveryOldEntityInOneRow /\ C2_EveryNewEntityInOneRow


CodePair(r) == <<r.codering_oud, r.codering_nieuw>>
BothDash(r) == r.codering_oud = Dash /\ r.codering_nieuw = Dash
IsMatchedRow(r) == r.codering_oud # Dash /\ r.codering_nieuw # Dash

\* C3 as stated: no (old_code, new_code) pair is in two rows of the
\* returned list
C3_NoCodePairTwice ==
    Done => \A k, l \in 1..Len(Result) :
                CodePair(Result[k]) = CodePair(Result[l]) => k = l

\* C3 amended: among the sub-process rows, and among the core-task rows, of
\* the returned list no pair of two codes (neither of them "-") is in two rows
C3_NoMatchedPairTwice ==
    Done => \A k, l \in 1..Len(Result) :
                (/\ IsMatchedRow(Result[k])
                 /\ CodePair(Result[k]) = CodePair(Result[l])
                 /\ \/ IsWerkprocesRow(Result[k]) /\ IsWerkprocesRow(Result[l])
                    \/ IsKerntaakRow(Result[k]) /\ IsKerntaakRow(Result[l]))
                => k = l

\* C3 witness: a returned list with two matched sub-process rows, next to
\* the metadata rows that share the pair ("-", "-")
C3_Witness ==
    /\ Done
    /\ Cardinality({k \in 1..Len(Result) :
                       IsWerkprocesRow(Result[k]) /\ IsMatchedRow(Result[k])}) = 2
    /\ \E k, l \in 1..Len(Result) : k # l /\ CodePair(Result[k]) = CodePair(Result[l])

\* the names of the rows that carry "-" as both codes by construction: the
\* version row, the validity row, the three prose rows and the skill row
FixedDashNames ==
    {GewijzigdPrefix \o oud_data.metadata.versie,
     GeldigVanafPrefix \o oud_data.metadata.geldig_vanaf,
     ContextNaam, BeroepshoudingNaam, ResultaatNaam, VakkennisNaam}

\* C4 as stated: no row of the returned list has "-" as both codes
C4_NoRowWithBothDash ==
    Done => \A k \in 1..Len(Result) : ~BothDash(Result[k])

\* C4 amended: the rows of the returned list with "-" as both codes are the
\* version row, the validity row, the three prose rows and the skill row, one
\* of each; no core-task row and no sub-process row has "-" as both codes
C4_OnlyFixedRowsHaveBothDash ==
    Done =>
        /\ \A k \in 1..Len(Result) :
               BothDash(Result[k]) =>
                   /\ Result[k].naam_oud \in FixedDashNames
                   /\ Result[k].pagina \in {"1", "6", "6-7", "7-9"}
        /\ Cardinality({k \in 1..Len(Result) : BothDash(Result[k])}) = 6

\* C4 witness: a returned list with a 'removed' and an 'added' sub-process
\* row, each with "-" on one side only
C4_Witness ==
    /\ Done
    /\ \E k, l \in 1..Len(Result) :
           /\ IsWerkprocesRow(Result[k]) /\ IsWerkprocesRow(Result[l])
           /\ Result[k].codering_oud # Dash /\ Result[k].codering_nieuw = Dash
           /\ Result[l].codering_oud = Dash /\ Result[l].codering_nieuw # Dash


\* the code of the entity is consumed
OudConsumed(wp) == wp.code \in matched_oud_werkprocessen
NieuwConsumed(wp) == wp.code \in matched_nieuw_werkprocessen

\* the new entities of the same name as the old one that are not consumed
SameNameFree(oud_wp) ==
    {j \in 1..Len(nieuw_data.werkprocessen) :
        /\ nieuw_data.werkprocessen[j].naam = oud_wp.naam
        /\ ~NieuwConsumed(nieuw_data.werkprocessen[j])}

\* the last row of a list joins the two entities
LastRowJoins(results, oud_wp, nieuw_wp) ==
    /\ results # <<>>
    /\ results[Len(results)].codering_oud = oud_wp.code
    /\ results[Len(results)].naam_oud = oud_wp.naam
    /\ results[Len(results)].codering_nieuw = nieuw_wp.code
    /\ results[Len(results)].naam_nieuw = nieuw_wp.naam

\* a new entity that STAP 2 would accept for the old one: its code is one to
\* three numbers away under the same core-task and its name is similar
ShiftCandidate(oud_wp, nieuw_wp) ==
    /\ MatchWerkprocesCode(oud_wp.code).ok
    /\ \E k \in 1..Len(Offsets) :
           nieuw_wp.code = ShiftedCode(MatchWerkprocesCode(oud_wp.code).kerntaak,
                                       MatchWerkprocesCode(oud_wp.code).num + Offsets[k])
    /\ Stap2Accepts(oud_wp, nieuw_wp)

\* C5: an iteration of STAP 1 whose old sub-process is unconsumed and has an
\* unconsumed new sub-process of the same name pairs it with the first of
\* them in new-list order, whatever its code, and consumes both; any other
\* iteration appends nothing; and when STAP 1 ends no unconsumed old and
\* unconsumed new sub-process have the same name
C5_ExactNamePriority ==
    [][(pc = "stap1" /\ pc' # "raised") =>
         IF idx <= Len(oud_data.werkprocessen)
         THEN LET oud_wp == oud_data.werkprocessen[idx]
                  free == SameNameFree(oud_wp)
              IN IF ~OudConsumed(oud_wp) /\ free # {}
                 THEN LET nieuw_wp == nieuw_data.werkprocessen[MinOf(free)]
                      IN /\ Len(comparison_results') = Len(comparison_results) + 1
                         /\ LastRowJoins(comparison_results', oud_wp, nieuw_wp)
                         /\ oud_wp.code \in matched_oud_werkprocessen'
                         /\ nieuw_wp.code \in matched_nieuw_werkprocessen'
                 ELSE comparison_results' = comparison_results
         ELSE \A i \in 1..Len(oud_data.werkprocessen) :
                  ~OudConsumed(oud_data.werkprocessen[i])
                      => SameNameFree(oud_data.werkprocessen[i]) = {}
      ]_vars

\* C5 witness: STAP 1 has just paired an old sub-process with a new one of
\* the same name and another code, while another unconsumed new sub-process
\* is an acceptable code-shift candidate for it
C5_Witness ==
    /\ pc = "stap1" /\ idx > 1
    /\ LET oud_wp == oud_data.werkprocessen[idx - 1]
       IN \E j, j2 \in 1..Len(nieuw_data.werkprocessen) :
              /\ LastRowJoins(comparison_results, oud_wp, nieuw_data.werkprocessen[j])
              /\ nieuw_data.werkprocessen[j].naam = oud_wp.naam
              /\ nieuw_data.werkprocessen[j].code # oud_wp.code
              /\ j2 < j
              /\ ~NieuwConsumed(nieuw_data.werkprocessen[j2])
              /\ ShiftCandidate(oud_wp, nieuw_data.werkprocessen[j2])


\* the rank of a difference of sub-process numbers in the order
\* +1, +2, +3, -1, -2, -3; 0 for any other difference
ShiftRank(d) ==
    IF d \in 1..3 THEN d ELSE IF (0 - d) \in 1..3 THEN 3 - d ELSE 0

\* the new entity found under a code (the last of the list with that code)
\* is unconsumed and STAP 2 accepts its name for the old entity
AcceptableAt(oud_wp, code) ==
    /\ code \in CodesOf(nieuw_data.werkprocessen)
    /\ code \notin matched_nieuw_werkprocessen
    /\ Stap2Accepts(oud_wp,
                    nieuw_data.werkprocessen[IndexByCode(nieuw_data.werkprocessen, code)])

\* C6: a row appended by an iteration of STAP 2 joins two codes of the
\* pattern with the same core-task prefix whose numbers differ by 1, 2 or 3,
\* and no difference earlier in the order +1, +2, +3, -1, -2, -3 leads to an
\* unconsumed new entity that STAP 2 accepts
C6_CodeShiftWithinThree ==
    [][(pc = "stap2" /\ comparison_results' # comparison_results) =>
         LET r == comparison_results'[Len(comparison_results')]
             o == MatchWerkprocesCode(r.codering_oud)
             n == MatchWerkprocesCode(r.codering_nieuw)
         IN /\ Len(comparison_results') = Len(comparison_results) + 1
            /\ r.codering_oud = unmatched_oud[idx].code
            /\ o.ok /\ n.ok
            /\ o.kerntaak = n.kerntaak
            /\ ShiftRank(n.num - o.num) \in 1..6
            /\ \A d \in -3..3 :
                   (ShiftRank(d) # 0 /\ ShiftRank(d) < ShiftRank(n.num - o.num))
                   => ~AcceptableAt(unmatched_oud[idx],
                                    o.kerntaak \o <<"-", "W">> \o FormatInt(o.num + d))
      ]_vars

\* C6 witness: STAP 2 has paired an old sub-process with the new one three
\* numbers up while the new one a number down was acceptable too, and a new
\* sub-process of another core-task is left unpaired
C6_Witness ==
    /\ pc = "stap3" /\ idx = 1 /\ unmatched_oud # <<>>
    /\ comparison_results # <<>>
    /\ LET oud_wp == unmatched_oud[Len(unmatched_oud)]
           r == comparison_results[Len(comparison_results)]
           o == MatchWerkprocesCode(oud_wp.code)
       IN /\ r.codering_oud = oud_wp.code /\ r.naam_oud = oud_wp.naam
          /\ r.naam_nieuw # oud_wp.naam
          /\ o.ok
          /\ r.codering_nieuw = ShiftedCode(o.kerntaak, o.num + 3)
          /\ AcceptableAt(oud_wp, ShiftedCode(o.kerntaak, o.num - 1))


\* the similarity of the two names of a row, as the fraction num/den
RowSimilarity(r) == Similarity(r.naam_oud, r.naam_nieuw)

\* two codes of the pattern under the same core-task, 1 to 3 numbers apart
ShiftRelated(oud_code, nieuw_code) ==
    LET o == MatchWerkprocesCode(oud_code)
        n == MatchWerkprocesCode(nieuw_code)
    IN o.ok /\ n.ok /\ o.kerntaak = n.kerntaak /\ ShiftRank(n.num - o.num) # 0

\* C7: a row appended by STAP 2 joins names that are identical or whose
\* similarity is strictly greater than 7/10, and a matched row appended by
\* STAP 3 joins names whose similarity is strictly greater than 1/2
C7_ThresholdsAreStrict ==
    [][(comparison_results' # comparison_results) =>
         LET r == comparison_results'[Len(comparison_results')]
         IN /\ (pc = "stap2") =>
                   \/ r.naam_oud = r.naam_nieuw
                   \/ 10 * RowSimilarity(r).num > 7 * RowSimilarity(r).den
            /\ (pc = "stap3" /\ idx <= Len(oud_data.werkprocessen)
                    /\ r.codering_nieuw # Dash) =>
                   2 * RowSimilarity(r).num > RowSimilarity(r).den
      ]_vars

\* C7 witness: a returned list in which an old and a new sub-process with
\* shifted codes and similarity exactly 7/10 were passed over by STAP 2
\* (STAP 3 paired them), and an old and a new sub-process with similarity
\* exactly 1/2 ended as a 'removed' and an 'added' row
C7_Witness ==
    /\ Done
    /\ \E k \in 1..Len(Result), u \in 1..Len(unmatched_oud) :
           /\ IsWerkprocesRow(Result[k]) /\ IsMatchedRow(Result[k])
           /\ Result[k].codering_oud = unmatched_oud[u].code
           /\ ShiftRelated(Result[k].codering_oud, Result[k].codering_nieuw)
           /\ 10 * RowSimilarity(Result[k]).num = 7 * RowSimilarity(Result[k]).den
    /\ \E k, l \in 1..Len(Result) :
           /\ IsWerkprocesRow(Result[k]) /\ IsWerkprocesRow(Result[l])
           /\ Result[k].codering_oud # Dash /\ Result[k].codering_nieuw = Dash
           /\ Result[l].codering_oud = Dash /\ Result[l].codering_nieuw # Dash
           /\ 2 * Similarity(Result[k].naam_oud, Result[l].naam_nieuw).num
                  = Similarity(Result[k].naam_oud, Result[l].naam_nieuw).den


\* the sub-process rows of the returned list, in order
WerkprocesRows == SelectSeq(Result, IsWerkprocesRow)

\* the input is one old and one new sub-process, both codes outside the
\* <parent>-W<n> pattern, whose names have a similarity of at most 1/2
ResidueInput ==
    /\ Len(oud_data.werkprocessen) = 1
    /\ Len(nieuw_data.werkprocessen) = 1
    /\ ~MatchWerkprocesCode(oud_data.werkprocessen[1].code).ok
    /\ ~MatchWerkprocesCode(nieuw_data.werkprocessen[1].code).ok
    /\ LET s == Similarity(oud_data.werkprocessen[1].naam,
                           nieuw_data.werkprocessen[1].naam)
       IN 2 * s.num <= s.den

\* C8: every sub-process row of the returned list with both codes different
\* from "-" joins names that are identical or whose similarity is strictly
\* greater than 1/2; one old and one new sub-process with codes outside the
\* pattern and similarity at most 1/2 give exactly a 'removed' row followed
\* by an 'added' row
C8_NoSpuriousMatch ==
    Done =>
        /\ \A k \in 1..Len(WerkprocesRows) :
               IsMatchedRow(WerkprocesRows[k]) =>
                   \/ WerkprocesRows[k].naam_oud = WerkprocesRows[k].naam_nieuw
                   \/ 2 * RowSimilarity(WerkprocesRows[k]).num
                          > RowSimilarity(WerkprocesRows[k]).den
        /\ ResidueInput =>
               /\ Len(WerkprocesRows) = 2
               /\ WerkprocesRows[1].codering_oud = oud_data.werkprocessen[1].code
               /\ WerkprocesRows[1].naam_oud = oud_data.werkprocessen[1].naam
               /\ WerkprocesRows[1].codering_nieuw = Dash
               /\ WerkprocesRows[1].naam_nieuw = Dash
               /\ WerkprocesRows[2].codering_oud = Dash
               /\ WerkprocesRows[2].naam_oud = Dash
               /\ WerkprocesRows[2].codering_nieuw = nieuw_data.werkprocessen[1].code
               /\ WerkprocesRows[2].naam_nieuw = nieuw_data.werkprocessen[1].naam

\* C8 witness: the comparison of one old and one new sub-process with codes
\* outside the pattern and similarity exactly 1/2 has returned
C8_Witness ==
    /\ Done
    /\ ResidueInput
    /\ 2 * Similarity(oud_data.werkprocessen[1].naam,
                      nieuw_data.werkprocessen[1].naam).num
           = Similarity(oud_data.werkprocessen[1].naam,
                        nieuw_data.werkprocessen[1].naam).den
    /\ Len(WerkprocesRows) = 2


\* the core-task rows of the returned list, in order
KerntaakRows == SelectSeq(Result, IsKerntaakRow)

\* the codes of the old and of the new core-task list
OudKerntaakCodes ==
    {oud_data.kerntaken[i].code : i \in 1..Len(oud_data.kerntaken)}
NieuwKerntaakCodes ==
    {nieuw_data.kerntaken[i].code : i \in 1..Len(nieuw_data.kerntaken)}

\* positions of an old and a new core-task that have the same name and
\* different codes, neither code occurring in the other list
SameNameOtherCode(i, j) ==
    /\ oud_data.kerntaken[i].naam = nieuw_data.kerntaken[j].naam
    /\ oud_data.kerntaken[i].code # nieuw_data.kerntaken[j].code
    /\ oud_data.kerntaken[i].code \notin NieuwKerntaakCodes
    /\ nieuw_data.kerntaken[j].code \notin OudKerntaakCodes

\* C9 as stated: an old and a new core-task with the same name and different
\* codes are reported as one matched (re-coded) row
C9_SameNameCoreTasksInOneRow ==
    Done =>
        \A i \in 1..Len(oud_data.kerntaken), j \in 1..Len(nieuw_data.kerntaken) :
            SameNameOtherCode(i, j) =>
                \E k \in 1..Len(KerntaakRows) :
                    /\ KerntaakRows[k].codering_oud = oud_data.kerntaken[i].code
                    /\ KerntaakRows[k].codering_nieuw = nieuw_data.kerntaken[j].code

\* C9 amended: core-tasks are reconciled by code alone. Every code of either
\* list has exactly one core-task row: a matched row with that code on both
\* sides when both lists hold the code, a 'removed' row when only the old
\* list does, an 'added' row when only the new list does; so an old and a
\* new core-task with the same name and different codes give a 'removed'
\* and an 'added' row
C9_CoreTasksReconciledByCode ==
    Done =>
        /\ Len(KerntaakRows) = Cardinality(OudKerntaakCodes \cup NieuwKerntaakCodes)
        /\ \A k \in 1..Len(KerntaakRows) :
               IsMatchedRow(KerntaakRows[k]) =>
                   KerntaakRows[k].codering_oud = KerntaakRows[k].codering_nieuw
        /\ \A c \in OudKerntaakCodes \cup NieuwKerntaakCodes :
               \E k \in 1..Len(KerntaakRows) :
                   /\ KerntaakRows[k].codering_oud =
                          (IF c \in OudKerntaakCodes THEN c ELSE Dash)
                   /\ KerntaakRows[k].codering_nieuw =
                          (IF c \in NieuwKerntaakCodes THEN c ELSE Dash)
                   /\ (c \notin OudKerntaakCodes) => KerntaakRows[k].naam_oud = Dash
                   /\ (c \notin NieuwKerntaakCodes) => KerntaakRows[k].naam_nieuw = Dash

\* C9 witness: a comparison of an old and a new core-task with the same name
\* and different codes has returned a 'removed' and an 'added' row for them
C9_Witness ==
    /\ Done
    /\ \E i \in 1..Len(oud_data.kerntaken), j \in 1..Len(nieuw_data.kerntaken) :
           /\ SameNameOtherCode(i, j)
           /\ \E k, l \in 1..Len(KerntaakRows) :
                  /\ KerntaakRows[k].codering_oud = oud_data.kerntaken[i].code
                  /\ KerntaakRows[k].codering_nieuw = Dash
                  /\ KerntaakRows[l].codering_oud = Dash
                  /\ KerntaakRows[l].codering_nieuw = nieuw_data.kerntaken[j].code


\* C10: every call of compare_all on one comparator returns the same
\* sequence of rows, and each call starts its phases with no result rows of
\* an earlier call, empty consumed sets and no emitted pairs
C10_MatchStateResetPerRun ==
    /\ \A m, n \in 1..Len(returned) : returned[m] = returned[n]
    /\ (pc = "metadata") =>
           /\ comparison_results = <<>>
           /\ matched_oud_werkprocessen = {}
           /\ matched_nieuw_werkprocessen = {}
           /\ processed_combinations = {}

\* C10 witness: a second call has returned, after a first call that left
\* consumed codes and emitted pairs behind and returned a matched
\* sub-process row
C10_Witness ==
    /\ pc = "idle"
    /\ Len(returned) = 2
    /\ matched_oud_werkprocessen # {}
    /\ matched_nieuw_werkprocessen # {}
    /\ processed_combinations # {}
    /\ \E k \in 1..Len(returned[1]) :
           IsWerkprocesRow(returned[1][k]) /\ IsMatchedRow(returned[1][k])


\* C11: compare_all never ends in an exception; whatever the records hold,
\* it returns a list of rows
C11_NeverRaises == pc # "raised"


\* the rows of a list report an entity list as all 'added': every row has
\* "-" as old code and name, and every entity has one row with its code and
\* its name on the new side
AllAdded(rows, entities) ==
    /\ \A k \in 1..Len(rows) :
           /\ rows[k].codering_oud = Dash /\ rows[k].naam_oud = Dash
           /\ rows[k].codering_nieuw # Dash
    /\ \A j \in 1..Len(entities) :
           Cardinality({k \in 1..Len(rows) :
                           /\ rows[k].codering_nieuw = entities[j].code
                           /\ rows[k].naam_nieuw = entities[j].naam}) = 1

\* the rows of a list report an entity list as all 'removed'
AllRemoved(rows, entities) ==
    /\ \A k \in 1..Len(rows) :
           /\ rows[k].codering_nieuw = Dash /\ rows[k].naam_nieuw = Dash
           /\ rows[k].codering_oud # Dash
    /\ \A i \in 1..Len(entities) :
           Cardinality({k \in 1..Len(rows) :
                           /\ rows[k].codering_oud = entities[i].code
                           /\ rows[k].naam_oud = entities[i].naam}) = 1

\* the rows for a pair of entity lists of which one is empty
EmptySideRows(rows, oud, nieuw) ==
    /\ (oud = <<>>) => AllAdded(rows, nieuw)
    /\ (nieuw = <<>>) => AllRemoved(rows, oud)
    /\ (oud = <<>> /\ nieuw = <<>>) => rows = <<>>

\* the sub-process half of C12; it holds, repeated codes included
EmptyWerkprocesSide ==
    Done => EmptySideRows(WerkprocesRows, oud_data.werkprocessen, nieuw_data.werkprocessen)

\* C12: with an empty old list every sub-process row is an 'added' row, one
\* per new entity; with an empty new list every sub-process row is a
\* 'removed' row, one per old entity; with both empty there is no
\* sub-process row; and the same for the core-task lists and rows
C12_EmptyListsGiveAddedOrRemoved ==
    Done =>
        /\ EmptySideRows(WerkprocesRows, oud_data.werkprocessen, nieuw_data.werkprocessen)
        /\ EmptySideRows(KerntaakRows, oud_data.kerntaken, nieuw_data.kerntaken)


\* the fallback of _describe_text_change for texts without a substantive
\* change
Rewording ==
    [toevoeging |-> <<>>, verwijdering |-> <<>>,
     zin |-> "herformulering zonder significante inhoudelijke wijzigingen"]

\* C13: _describe_text_change(x, x) returns the rewording fallback for
\* every text x: no added clause, no removed clause, neither the 'expanded'
\* nor the 'condensed' sentence
C13_SameTextIsRewording ==
    (pc = "described" /\ text_change.old_text = text_change.new_text)
        => text_change.changes = Rewording

\* C13 witness: _describe_text_change("", "") has returned
C13_Witness ==
    /\ pc = "described"
    /\ text_change.old_text = <<>>
    /\ text_change.new_text = <<>>
    /\ text_change.changes.zin # ""


\* the (old_code, old_name, new_code, new_name) tuple of a row
RowTuple(r) == <<r.codering_oud, r.naam_oud, r.codering_nieuw, r.naam_nieuw>>

\* the positions of a list whose tuple no earlier position has
FirstOccurrences(rows) ==
    {k \in 1..Len(rows) : \A j \in 1..(k - 1) : RowTuple(rows[j]) # RowTuple(rows[k])}

\* the m-th position, in increasing order, of a set of positions
NthOf(S, m) == CHOOSE k \in S : Cardinality({j \in S : j <= k}) = m

\* C14: the list compare_all returns has no two rows with the same tuple,
\* and it is the list before deduplication restricted to the first
\* occurrence of every tuple, in the same order
C14_Deduplication ==
    [][(pc = "remove_duplicates") =>
         LET before == comparison_results
             after == returned'[Len(returned')]
             kept == FirstOccurrences(before)
         IN /\ Len(returned') = Len(returned) + 1
            /\ after = comparison_results'
            /\ \A m, n \in 1..Len(after) :
                   (m # n) => RowTuple(after[m]) # RowTuple(after[n])
            /\ Len(after) = Cardinality(kept)
            /\ \A m \in 1..Len(after) : after[m] = before[NthOf(kept, m)]
      ]_vars

\* C14 witness: the comparison of an old list that holds the same
\* sub-process twice, both times without a match, has returned: the two
\* 'removed' rows of STAP 3 are one row of the returned list
C14_Witness ==
    /\ Done
    /\ Len(oud_data.werkprocessen) = 2
    /\ oud_data.werkprocessen[1] = oud_data.werkprocessen[2]
    /\ oud_data.werkprocessen[1].code \notin matched_oud_werkprocessen
    /\ Cardinality({k \in 1..Len(Result) :
                       RowTuple(Result[k]) = <<oud_data.werkprocessen[1].code,
                                               oud_data.werkprocessen[1].naam,
                                               Dash, Dash>>}) = 1


\* C15: no step of compare_all changes the two dossiers the comparator was
\* constructed with: their entity lists (order and elements), metadata,
\* prose sections and skill lists stay as they were
C15_InputsUnchanged ==
    [][oud_data' = oud_data /\ nieuw_data' = nieuw_data]_vars

\* C15 witness: a call has returned in which the unmatched old
\* sub-processes were sorted into another order than the old list has
C15_Witness ==
    /\ Done
    /\ Len(oud_data.werkprocessen) = 2
    /\ Len(unmatched_oud) = 2
    /\ unmatched_oud[1] = oud_data.werkprocessen[2]
    /\ unmatched_oud[2] = oud_data.werkprocessen[1]
    /\ unmatched_oud[1] # unmatched_oud[2]


\* the section of the output a row belongs to: 1 metadata, 2 core-tasks,
\* 3 sub-processes, 4 prose sections, 5 skills
Section(r) ==
    CASE r.pagina = "1" -> 1
      [] IsKerntaakRow(r) -> 2
      [] IsWerkprocesRow(r) -> 3
      [] r.pagina = "7-9" -> 5
      [] OTHER -> 4

\* the phase compare_all is in: 1 metadata, 2 core-tasks, 3 to 6 the four
\* phases of the sub-processes, 7 prose sections, 8 skills, 9
\* deduplication; 0 between calls
PhaseAt(p, i) ==
    CASE p = "metadata" -> 1
      [] p = "kerntaken" -> 2
      [] p = "stap1" -> 3
      [] p = "stap2" -> 4
      [] p = "stap3" -> IF i <= Len(oud_data.werkprocessen) THEN 5 ELSE 6
      [] p = "text_sections" -> 7
      [] p = "vakkennis" -> 8
      [] p = "remove_duplicates" -> 9
      [] OTHER -> 0

\* the rows a phase may append: their section, and for the sub-processes
\* whether they carry an old code (phases 1 to 3) or are 'added' rows
RowOfPhase(r, phase) ==
    CASE phase = 1 -> Section(r) = 1
      [] phase = 2 -> Section(r) = 2
      [] phase \in {3, 4} -> Section(r) = 3 /\ IsMatchedRow(r)
      [] phase = 5 -> Section(r) = 3 /\ r.codering_oud # Dash
      [] phase = 6 -> Section(r) = 3 /\ r.codering_oud = Dash
      [] phase = 7 -> Section(r) = 4
      [] phase = 8 -> Section(r) = 5
      [] OTHER -> FALSE

\* the rows of a returned list are in section order, and among the
\* sub-process rows every 'added' row comes after every other row
InSectionOrder(rows) ==
    \A k, l \in 1..Len(rows) :
        (k < l) =>
            /\ Section(rows[k]) <= Section(rows[l])
            /\ (Section(rows[k]) = 3 /\ Section(rows[l]) = 3
                    /\ rows[k].codering_oud = Dash) => rows[l].codering_oud = Dash

\* C16: the returned list holds the metadata rows, then the core-task rows,
\* then the sub-process rows, then the three prose rows, then the skill row;
\* the phases run in the order metadata, core-tasks, Phase 1, Phase 2,
\* Phase 3, Phase 4, prose, skills, and each appends its own kind of rows at
\* the end of the list, so Phase 1 rows precede Phase 2 rows, which precede
\* Phase 3 matches and 'removed' rows, which precede the 'added' rows
C16_OutputOrder ==
    [][/\ (pc' = "idle") =>
             /\ InSectionOrder(returned'[Len(returned')])
             /\ Len(SelectSeq(returned'[Len(returned')], LAMBDA r : Section(r) = 4)) = 3
             /\ Len(SelectSeq(returned'[Len(returned')], LAMBDA r : Section(r) = 5)) = 1
       /\ (PhaseAt(pc, idx) \in 1..8) =>
             /\ Len(comparison_results') >= Len(comparison_results)
             /\ SubSeq(comparison_results', 1, Len(comparison_results)) = comparison_results
             /\ \A k \in (Len(comparison_results) + 1)..Len(comparison_results') :
                    RowOfPhase(comparison_results'[k], PhaseAt(pc, idx))
             /\ (pc' # "raised") => PhaseAt(pc', idx') >= PhaseAt(pc, idx)
      ]_vars

\* C16 witness: a returned list with core-task rows and with a matched
\* sub-process row, then a 'removed' row, then an 'added' row
C16_Witness ==
    /\ Done
    /\ \E k \in 1..Len(Result) : Section(Result[k]) = 2
    /\ \E k, l, m \in 1..Len(Result) :
           /\ k < l /\ l < m
           /\ Section(Result[k]) = 3 /\ IsMatchedRow(Result[k])
           /\ Section(Result[l]) = 3 /\ Result[l].codering_nieuw = Dash
           /\ Section(Result[m]) = 3 /\ Result[m].codering_oud = Dash


\* the new sub-process STAP 2 looks up for the old one at the k-th offset of
\* +1, +2, +3, -1, -2, -3: its position in the new list (the last entity
\* with the shifted code), 0 when no new entity has the code or the code is
\* consumed
CandidateAt(oud_wp, k) ==
    LET o == MatchWerkprocesCode(oud_wp.code)
        d == IF k <= 3 THEN k ELSE 3 - k
        code == o.kerntaak \o <<"-", "W">> \o FormatInt(o.num + d)
        found == {j \in 1..Len(nieuw_data.werkprocessen) :
                      nieuw_data.werkprocessen[j].code = code}
    IN IF found = {} \/ code \in matched_nieuw_werkprocessen THEN 0
       ELSE CHOOSE j \in found : \A i \in found : i <= j

\* the names of the old sub-process and of its candidate at the k-th offset
\* are identical or more than 7/10 similar
NameAccepted(oud_wp, k) ==
    LET nieuw_wp == nieuw_data.werkprocessen[CandidateAt(oud_wp, k)]
    IN \/ oud_wp.naam = nieuw_wp.naam
       \/ 10 * Similarity(oud_wp.naam, nieuw_wp.naam).num
              > 7 * Similarity(oud_wp.naam, nieuw_wp.naam).den

\* an iteration of STAP 2 that takes the first of a set of offsets, or
\* appends nothing when the set is empty
Stap2Takes(oud_wp, ks) ==
    IF ks = {}
    THEN comparison_results' = comparison_results
    ELSE /\ Len(comparison_results') = Len(comparison_results) + 1
         /\ LastRowJoins(comparison_results', oud_wp,
                         nieuw_data.werkprocessen[CandidateAt(oud_wp, MinOf(ks))])

\* the old sub-process of the running iteration of STAP 2 is unconsumed and
\* has a code of the pattern
Stap2Scans ==
    /\ pc = "stap2"
    /\ unmatched_oud[idx].code \notin matched_oud_werkprocessen
    /\ MatchWerkprocesCode(unmatched_oud[idx].code).ok

\* C17 as stated: only the first offset with an unconsumed candidate is
\* tested; when its name is not accepted the iteration appends nothing
C17_OnlyFirstCandidateTested ==
    [][Stap2Scans =>
         LET oud_wp == unmatched_oud[idx]
             ks == {k \in 1..6 : CandidateAt(oud_wp, k) # 0}
         IN Stap2Takes(oud_wp,
                       IF ks # {} /\ NameAccepted(oud_wp, MinOf(ks)) THEN {MinOf(ks)} ELSE {})
      ]_vars

\* C17 amended: the offsets are tried in order until one has an unconsumed
\* candidate whose name is accepted; that candidate is matched and later
\* offsets are not tried; a candidate whose name is not accepted does not
\* end the scan
C17_FirstAcceptedCandidate ==
    [][Stap2Scans =>
         LET oud_wp == unmatched_oud[idx]
             ks == {k \in 1..6 : CandidateAt(oud_wp, k) # 0 /\ NameAccepted(oud_wp, k)}
         IN Stap2Takes(oud_wp, ks)
      ]_vars

\* C17 witness: STAP 2 has just matched an old sub-process with a candidate
\* of another name although an earlier offset has an unconsumed candidate,
\* whose name is not accepted
C17_Witness ==
    /\ pc = "stap3" /\ idx = 1
    /\ comparison_results # <<>>
    /\ LET r == comparison_results[Len(comparison_results)]
       IN /\ IsWerkprocesRow(r) /\ IsMatchedRow(r)
          /\ r.naam_oud # r.naam_nieuw
          /\ \E u \in 1..Len(unmatched_oud) :
                 /\ unmatched_oud[u].code = r.codering_oud
                 /\ unmatched_oud[u].naam = r.naam_oud
                 /\ MatchWerkprocesCode(r.codering_oud).ok
                 /\ \E k, l \in 1..6 :
                        /\ k < l
                        /\ CandidateAt(unmatched_oud[u], k) # 0
                        /\ ~NameAccepted(unmatched_oud[u], k)
                        /\ r.codering_nieuw =
                               MatchWerkprocesCode(r.codering_oud).kerntaak \o <<"-", "W">>
                                   \o FormatInt(MatchWerkprocesCode(r.codering_oud).num
                                                    + (IF l <= 3 THEN l ELSE 3 - l))


\* C18: an iteration of STAP 2 whose old sub-process is unconsumed and has
\* an unconsumed candidate one to three numbers away under the same
\* core-task with an accepted name appends one re-coded row that joins it
\* with the first such candidate, with a rename clause when the names
\* differ, and consumes both, whatever the name similarity of the other
\* unconsumed new sub-processes
C18_CodeDriftOutranksSimilarity ==
    [][Stap2Scans =>
         LET oud_wp == unmatched_oud[idx]
             ks == {k \in 1..6 : CandidateAt(oud_wp, k) # 0 /\ NameAccepted(oud_wp, k)}
         IN (ks # {}) =>
              LET nieuw_wp == nieuw_data.werkprocessen[CandidateAt(oud_wp, MinOf(ks))]
                  r == comparison_results'[Len(comparison_results')]
              IN /\ comparison_results' = Append(comparison_results, r)
                 /\ RowTuple(r) = <<oud_wp.code, oud_wp.naam, nieuw_wp.code, nieuw_wp.naam>>
                 /\ r.impact.van = oud_wp.code /\ r.impact.naar = nieuw_wp.code
                 /\ IF oud_wp.naam = nieuw_wp.naam
                    THEN r.impact.zin =
                             "Werkproces heeft nieuwe codering gekregen: van {van} naar {naar}"
                    ELSE /\ r.impact.zin =
                                "Werkproces heeft nieuwe codering gekregen: van {van} naar {naar}. Naamswijziging: {wijziging}"
                         /\ r.impact.wijziging # NoDescription
                 /\ oud_wp.code \in matched_oud_werkprocessen'
                 /\ nieuw_wp.code \in matched_nieuw_werkprocessen'
      ]_vars

\* C18 witness: STAP 2 has just matched an old sub-process with a
\* code-shift candidate of another name while an unconsumed new sub-process
\* has a strictly higher name similarity to it
C18_Witness ==
    /\ pc = "stap3" /\ idx = 1
    /\ comparison_results # <<>>
    /\ LET r == comparison_results[Len(comparison_results)]
       IN /\ IsWerkprocesRow(r) /\ IsMatchedRow(r)
          /\ r.naam_oud # r.naam_nieuw
          /\ ShiftRelated(r.codering_oud, r.codering_nieuw)
          /\ \E u \in 1..Len(unmatched_oud) : unmatched_oud[u].code = r.codering_oud
          /\ \E j \in 1..Len(nieuw_data.werkprocessen) :
                 /\ nieuw_data.werkprocessen[j].code \notin matched_nieuw_werkprocessen
                 /\ Similarity(r.naam_oud, nieuw_data.werkprocessen[j].naam).num
                        * RowSimilarity(r).den
                    > RowSimilarity(r).num
                        * Similarity(r.naam_oud, nieuw_data.werkprocessen[j].naam).den


\* the name similarity of an old sub-process and the j-th new one
SimilarityTo(oud_wp, j) == Similarity(oud_wp.naam, nieuw_data.werkprocessen[j].naam)

\* the fraction x is less than the fraction y
FractionLess(x, y) == x.num * y.den < y.num * x.den

\* C19: an iteration of STAP 3, taken in old-list order, appends nothing
\* for a consumed old sub-process; an unconsumed one is matched with the
\* unconsumed new sub-process of the highest name similarity, the earliest
\* in the new list among equals, when that similarity exceeds 1/2, and both
\* are consumed; otherwise a 'removed' row is appended and nothing is
\* consumed
C19_GreedyArgMax ==
    [][(pc = "stap3" /\ idx <= Len(oud_data.werkprocessen)) =>
         LET oud_wp == oud_data.werkprocessen[idx]
             free == {j \in 1..Len(nieuw_data.werkprocessen) :
                         nieuw_data.werkprocessen[j].code \notin matched_nieuw_werkprocessen}
             best == {j \in free :
                         /\ 2 * SimilarityTo(oud_wp, j).num > SimilarityTo(oud_wp, j).den
                         /\ \A i \in free : ~FractionLess(SimilarityTo(oud_wp, j),
                                                          SimilarityTo(oud_wp, i))}
         IN /\ idx' = idx + 1
            /\ IF oud_wp.code \in matched_oud_werkprocessen
               THEN /\ comparison_results' = comparison_results
                    /\ matched_nieuw_werkprocessen' = matched_nieuw_werkprocessen
               ELSE /\ Len(comparison_results') = Len(comparison_results) + 1
                    /\ IF best # {}
                       THEN /\ LastRowJoins(comparison_results', oud_wp,
                                            nieuw_data.werkprocessen[MinOf(best)])
                            /\ matched_oud_werkprocessen' =
                                   matched_oud_werkprocessen \cup {oud_wp.code}
                            /\ matched_nieuw_werkprocessen' =
                                   matched_nieuw_werkprocessen
                                       \cup {nieuw_data.werkprocessen[MinOf(best)].code}
                       ELSE /\ RowTuple(comparison_results'[Len(comparison_results')])
                                   = <<oud_wp.code, oud_wp.naam, Dash, Dash>>
                            /\ matched_oud_werkprocessen' = matched_oud_werkprocessen
                            /\ matched_nieuw_werkprocessen' = matched_nieuw_werkprocessen
      ]_vars

\* C19 witness: STAP 3 has just matched an old sub-process with a new one
\* while a later new sub-process with the same name similarity is
\* unconsumed
C19_Witness ==
    /\ pc = "stap3" /\ idx > 1
    /\ idx <= Len(oud_data.werkprocessen) + 1
    /\ comparison_results # <<>>
    /\ LET r == comparison_results[Len(comparison_results)]
           oud_wp == oud_data.werkprocessen[idx - 1]
       IN /\ IsWerkprocesRow(r) /\ IsMatchedRow(r)
          /\ r.codering_oud = oud_wp.code /\ r.naam_oud = oud_wp.naam
          /\ r.naam_oud # r.naam_nieuw
          /\ ~MatchWerkprocesCode(r.codering_oud).ok
          /\ \E i, j \in 1..Len(nieuw_data.werkprocessen) :
                 /\ i < j
                 /\ nieuw_data.werkprocessen[i].code = r.codering_nieuw
                 /\ nieuw_data.werkprocessen[i].naam = r.naam_nieuw
                 /\ nieuw_data.werkprocessen[j].code \notin matched_nieuw_werkprocessen
                 /\ SimilarityTo(oud_wp, j) = SimilarityTo(oud_wp, i)


\* the case-folded tokens of a text that are longer than 3 characters, in
\* order, repeats included
Tokens(text) ==
    LET ws == Split(text)
        long == {i \in 1..Len(ws) : Len(ws[i]) > 3}
    IN [m \in 1..Cardinality(long) |-> Lower(ws[NthOf(long, m)])]

\* the tokens of a sequence
TokenSet(ts) == {ts[i] : i \in 1..Len(ts)}

\* a clause names each token at most once
NamedOnce(clause) ==
    \A i, j \in 1..Len(clause) : (i # j) => clause[i] # clause[j]

\* a clause names at most 3 tokens, all of them tokens of `from' that are
\* not tokens of `other', in the order `from' has them
NamesDifference(clause, from, other) ==
    /\ Len(clause) <= 3
    /\ \A i \in 1..Len(clause) :
           clause[i] \in TokenSet(from) /\ clause[i] \notin TokenSet(other)
    /\ \E f \in [1..Len(clause) -> 1..Len(from)] :
           /\ \A i \in 1..Len(clause) : from[f[i]] = clause[i]
           /\ \A i, j \in 1..Len(clause) : (i < j) => f[i] < f[j]
    /\ (TokenSet(from) \subseteq TokenSet(other)) <=> (clause = <<>>)

\* the part of C20 that holds: at most 3 tokens per clause, in text order,
\* none of them present on both sides
NamesOnlyDifferences ==
    (pc = "described") =>
        /\ NamesDifference(text_change.changes.toevoeging,
                           Tokens(text_change.new_text), Tokens(text_change.old_text))
        /\ NamesDifference(text_change.changes.verwijdering,
                           Tokens(text_change.old_text), Tokens(text_change.new_text))

\* C20: the 'added' and the 'removed' clause of _describe_text_change name
\* set differences of the case-folded tokens longer than 3 characters: each
\* token at most once, at most the first 3 in first-seen order, and never a
\* token that both texts have
C20_ClausesNameSetDifferences ==
    (pc = "described") =>
        /\ NamesDifference(text_change.changes.toevoeging,
                           Tokens(text_change.new_text), Tokens(text_change.old_text))
        /\ NamesDifference(text_change.changes.verwijdering,
                           Tokens(text_change.old_text), Tokens(text_change.new_text))
        /\ NamedOnce(text_change.changes.toevoeging)
        /\ NamedOnce(text_change.changes.verwijdering)


\* the skill rows of the returned list
VakkennisRows == SelectSeq(Result, LAMBDA r : r.pagina = "7-9")

\* an item is unique to its side: no item of the other side has a
\* similarity of at least 8/10 with it
UniqueItem(item, others) ==
    \A i \in 1..Len(others) :
        10 * Similarity(item, others[i]).num < 8 * Similarity(item, others[i]).den

\* a key term occurs in an item
HasKeyTerm(item) ==
    \E k \in 1..Len(KeyTermPatterns), i \in 1..Len(item) :
        /\ i + Len(KeyTermPatterns[k]) - 1 <= Len(item)
        /\ \A m \in 1..Len(KeyTermPatterns[k]) : item[i + m - 1] = KeyTermPatterns[k][m]

\* C21: the returned list has exactly one skill row; with oud_uniek and
\* nieuw_uniek the items without an item of similarity >= 8/10 on the other
\* side, its sentence is the key term sentence when a key term occurs in an
\* item of nieuw_uniek, and otherwise the sentence for only new, only old,
\* both, or no unique items
C21_SkillSummary ==
    Done =>
        LET oud == oud_data.vakkennis_vaardigheden
            nieuw == nieuw_data.vakkennis_vaardigheden
            oud_uniek == {i \in 1..Len(oud) : UniqueItem(oud[i], nieuw)}
            nieuw_uniek == {j \in 1..Len(nieuw) : UniqueItem(nieuw[j], oud)}
            zin == IF \E j \in nieuw_uniek : HasKeyTerm(nieuw[j])
                   THEN "Het nieuwe dossier bevat aanvullende vakkennis en vaardigheden, waaronder: {termen}. Sommige vaardigheden zijn specifieker beschreven."
                   ELSE IF nieuw_uniek # {} /\ oud_uniek = {}
                   THEN "Het nieuwe dossier bevat aanvullende vakkennis en vaardigheden. Sommige vaardigheden zijn specifieker beschreven."
                   ELSE IF oud_uniek # {} /\ nieuw_uniek = {}
                   THEN "Sommige vakkennis en vaardigheden uit het oude dossier zijn verwijderd of anders geformuleerd."
                   ELSE IF oud_uniek # {} /\ nieuw_uniek # {}
                   THEN "Zowel toevoegingen als verwijderingen in vakkennis en vaardigheden, met meer nadruk op actuele kennis en vaardigheden in het nieuwe dossier."
                   ELSE "Geen significante wijzigingen in vakkennis en vaardigheden."
        IN /\ Len(VakkennisRows) = 1
           /\ VakkennisRows[1].impact.zin = zin
           /\ (VakkennisRows[1].impact.termen # {})
                  <=> (\E j \in nieuw_uniek : HasKeyTerm(nieuw[j]))

\* C21 witness: a returned comparison in which a new item is covered by an
\* old item of similarity exactly 8/10, another new item is unique and
\* holds a key term, and an old item is unique
C21_Witness ==
    /\ Done
    /\ LET oud == oud_data.vakkennis_vaardigheden
           nieuw == nieuw_data.vakkennis_vaardigheden
       IN /\ \E i \in 1..Len(oud), j \in 1..Len(nieuw) :
                 10 * Similarity(oud[i], nieuw[j]).num = 8 * Similarity(oud[i], nieuw[j]).den
          /\ \E j \in 1..Len(nieuw) : UniqueItem(nieuw[j], oud) /\ HasKeyTerm(nieuw[j])
          /\ \E i \in 1..Len(oud) : UniqueItem(oud[i], nieuw)
    /\ Len(VakkennisRows) = 1
    /\ VakkennisRows[1].impact.termen # {}


\* the impact of a row says the entity was re-coded
SaysRecoded(r) ==
    r.impact.zin \in
        {"Werkproces heeft nieuwe codering gekregen: van {van} naar {naar}",
         "Werkproces heeft nieuwe codering gekregen: van {van} naar {naar}. Naamswijziging: {wijziging}"}

\* C22: every sub-process row of the returned list whose impact says the
\* entity got a new code, from X to Y, has an old code different from its
\* new code
C22_RecodedRowsChangeCode ==
    Done =>
        \A k \in 1..Len(WerkprocesRows) :
            SaysRecoded(WerkprocesRows[k]) =>
                /\ WerkprocesRows[k].impact.van = WerkprocesRows[k].codering_oud
                /\ WerkprocesRows[k].impact.naar = WerkprocesRows[k].codering_nieuw
                /\ WerkprocesRows[k].codering_oud # WerkprocesRows[k].codering_nieuw


\* the 'removed' and the 'added' sub-process rows of the returned list
IsRemovedRow(r) == IsWerkprocesRow(r) /\ r.codering_oud # Dash /\ r.codering_nieuw = Dash
IsAddedRow(r) == IsWerkprocesRow(r) /\ r.codering_oud = Dash /\ r.codering_nieuw # Dash

\* C23: when no code is repeated within the old or within the new sub-process
\* list, the name of every 'removed' row and the name of every 'added' row
\* of the returned list are different and have a similarity of at most 1/2
C23_NoMissedMatchInResidue ==
    (/\ Done
     /\ UniqueCodes(oud_data.werkprocessen)
     /\ UniqueCodes(nieuw_data.werkprocessen)) =>
        \A k, l \in 1..Len(Result) :
            (IsRemovedRow(Result[k]) /\ IsAddedRow(Result[l])) =>
                /\ Result[k].naam_oud # Result[l].naam_nieuw
                /\ 2 * Similarity(Result[k].naam_oud, Result[l].naam_nieuw).num
                       <= Similarity(Result[k].naam_oud, Result[l].naam_nieuw).den

\* C23 witness: a returned comparison of lists without repeated codes that
\* has a 'removed' and an 'added' row whose names have similarity exactly
\* 1/2, next to a row STAP 3 matched
C23_Witness ==
    /\ Done
    /\ UniqueCodes(oud_data.werkprocessen)
    /\ UniqueCodes(nieuw_data.werkprocessen)
    /\ \E k, l \in 1..Len(Result) :
           /\ IsRemovedRow(Result[k]) /\ IsAddedRow(Result[l])
           /\ 2 * Similarity(Result[k].naam_oud, Result[l].naam_nieuw).num
                  = Similarity(Result[k].naam_oud, Result[l].naam_nieuw).den
    /\ \E m \in 1..Len(Result) :
           /\ IsWerkprocesRow(Result[m]) /\ IsMatchedRow(Result[m])
           /\ Result[m].naam_oud # Result[m].naam_nieuw


\* the list STAP 2 loops over holds the old sub-processes whose code STAP 1
\* left unmatched, each as often as the old list, in ascending string order
\* of their codes
VisitedInCodeOrder(visited) ==
    /\ \A i, j \in 1..Len(visited) :
           i < j => ~StrLess(visited[j].code, visited[i].code)
    /\ \A i \in 1..Len(visited) :
           /\ visited[i].code \notin matched_oud_werkprocessen
           /\ Cardinality({j \in 1..Len(visited) : visited[j] = visited[i]})
                  = Cardinality({j \in 1..Len(oud_data.werkprocessen) :
                                    oud_data.werkprocessen[j] = visited[i]})
    /\ \A j \in 1..Len(oud_data.werkprocessen) :
           oud_data.werkprocessen[j].code \notin matched_oud_werkprocessen
               => InList(oud_data.werkprocessen[j], visited)

\* the offsets at which the old sub-process has an unconsumed candidate
\* whose name STAP 2 accepts
AcceptedOffsets(oud_wp) ==
    {k \in 1..6 : CandidateAt(oud_wp, k) # 0 /\ NameAccepted(oud_wp, k)}

\* a later entity of the list of STAP 2 that is unconsumed, has a code of
\* the pattern and a greater code string than the entity of the running
\* iteration
LaterInStap2(j) ==
    /\ j \in (idx + 1)..Len(unmatched_oud)
    /\ unmatched_oud[j].code \notin matched_oud_werkprocessen
    /\ MatchWerkprocesCode(unmatched_oud[j].code).ok
    /\ StrLess(unmatched_oud[idx].code, unmatched_oud[j].code)

\* C24 as stated: STAP 2 visits the old sub-processes left over from STAP 1
\* in ascending string order of their code, and when the visited one and a
\* later one both have an unconsumed new sub-process as an acceptable
\* candidate, the visited one (of the smaller code) is matched with it
C24_SmallerCodeGetsSharedCandidate ==
    [][/\ (pc = "stap1" /\ pc' \in {"stap2", "stap3"}) => VisitedInCodeOrder(unmatched_oud')
       /\ Stap2Scans =>
              \A j \in 1..Len(unmatched_oud), k \in 1..6 :
                  (/\ LaterInStap2(j)
                   /\ k \in AcceptedOffsets(unmatched_oud[idx])
                   /\ \E l \in AcceptedOffsets(unmatched_oud[j]) :
                          CandidateAt(unmatched_oud[j], l) = CandidateAt(unmatched_oud[idx], k))
                  => LastRowJoins(comparison_results', unmatched_oud[idx],
                                  nieuw_data.werkprocessen[CandidateAt(unmatched_oud[idx], k)])
      ]_vars

\* C24 amended: STAP 2 visits the old sub-processes left over from STAP 1 in
\* ascending string order of their code, and when the visited one and a
\* later one both have the same unconsumed new sub-process as their first
\* acceptable candidate in the order of the offsets, the visited one (of the
\* smaller code) is matched with it and the later one is not
C24_SmallerCodeGetsFirstCandidate ==
    [][/\ (pc = "stap1" /\ pc' \in {"stap2", "stap3"}) => VisitedInCodeOrder(unmatched_oud')
       /\ (pc = "stap2" /\ pc' = "stap2") => (unmatched_oud' = unmatched_oud /\ idx' = idx + 1)
       /\ Stap2Scans =>
              \A j \in 1..Len(unmatched_oud) :
                  (/\ LaterInStap2(j)
                   /\ AcceptedOffsets(unmatched_oud[idx]) # {}
                   /\ AcceptedOffsets(unmatched_oud[j]) # {}
                   /\ CandidateAt(unmatched_oud[j], MinOf(AcceptedOffsets(unmatched_oud[j])))
                          = CandidateAt(unmatched_oud[idx], MinOf(AcceptedOffsets(unmatched_oud[idx]))))
                  => LET nieuw_wp ==
                             nieuw_data.werkprocessen[
                                 CandidateAt(unmatched_oud[idx],
                                             MinOf(AcceptedOffsets(unmatched_oud[idx])))]
                     IN /\ LastRowJoins(comparison_results', unmatched_oud[idx], nieuw_wp)
                        /\ nieuw_wp.code \in matched_nieuw_werkprocessen'
                        /\ unmatched_oud[j].code \notin matched_oud_werkprocessen'
      ]_vars

\* C24 witness: the old list holds two sub-processes in descending order of
\* their codes, both left over from STAP 1 and both with the same new
\* sub-process one number away as an accepted candidate; STAP 2 has visited
\* them in ascending order and matched the one of the smaller code
C24_Witness ==
    /\ pc = "stap3" /\ idx = 1
    /\ Len(oud_data.werkprocessen) = 2
    /\ StrLess(oud_data.werkprocessen[2].code, oud_data.werkprocessen[1].code)
    /\ unmatched_oud = <<oud_data.werkprocessen[2], oud_data.werkprocessen[1]>>
    /\ \E n \in 1..Len(nieuw_data.werkprocessen) :
           /\ ShiftCandidate(oud_data.werkprocessen[1], nieuw_data.werkprocessen[n])
           /\ ShiftCandidate(oud_data.werkprocessen[2], nieuw_data.werkprocessen[n])
           /\ LastRowJoins(comparison_results, oud_data.werkprocessen[2],
                           nieuw_data.werkprocessen[n])
    /\ oud_data.werkprocessen[1].code \notin matched_oud_werkprocessen

====
